---- MODULE Spec2Model ----
(***************************************************************************)
(* codie-discord: the sandbox executor (src/src/runner.rs, CodeRunner) and *)
(* the caller that drives it (src/src/discord.rs, try_run_raw), together   *)
(* with the container engine they talk to.                                 *)
(*                                                                         *)
(* One request is modelled: try_run_raw calls run_code, and on             *)
(* UnrecognizedContainer builds the image and calls run_code once more.    *)
(* Every engine call is one step; each step may be answered by an engine   *)
(* error.  The sandboxed program is an input: the chunks it writes and     *)
(* whether (and with which status) it exits on its own.                    *)
(***************************************************************************)
EXTENDS Integers, Sequences, FiniteSets, TLC

\* ------------------------------------------------------------------ bounds
\* Longest sequence of log chunks a program writes.
MaxChunks == 3
\* Longest option text, in fragments.
MaxPieces == 6
\* Most progress records a build stream delivers before it ends or fails.
MaxProgress == 1
MaxLiveChunks == 2

\* ------------------------------------------------------- program constants
\* serenity::constants::MESSAGE_CODE_LIMIT
MESSAGE_CODE_LIMIT == 2000
\* "mentions_cost_22_chars: **EXIT STATUS:** 255\n```...```".len()
OverheadLen == 54
\* A budget that leaves no room for what the encoder adds.
MAX_OUTPUT_CODEPOINTS_NoOverhead == MESSAGE_CODE_LIMIT

MAX_OUTPUT_CODEPOINTS == MESSAGE_CODE_LIMIT - OverheadLen
\* The decimal digits of the largest u64, the type of Output::status.
U64Digits == 20
\* The status the engine reports for a container killed by SIGKILL.
KilledStatus == 137

\* ------------------------------------------------------------------- bytes
\* A byte string is kept as a sequence of runs: Run(b, n) is n >= 1 copies of
\* the byte b.  Bytes are told apart by their UTF-8 class: "a" a one-byte
\* character, "tick" the backtick, "L" the lead byte of a two-byte character,
\* "T" a continuation byte, "." the byte of the truncation marker.
Run(b, n) == <<[b |-> b, n |-> n]>>

\* b"..."
Marker == Run(".", 3)

\* bytes.len()
RECURSIVE ByteLen(_)
ByteLen(s) == IF s = <<>> THEN 0 ELSE Head(s).n + ByteLen(Tail(s))

\* str::from_utf8(bytes).is_ok(): every lead byte is followed by exactly one
\* continuation byte and every continuation byte follows a lead byte.
ValidUtf8(s) ==
    \A i \in 1..Len(s) :
        /\ s[i].b = "L" => (s[i].n = 1 /\ i < Len(s) /\ s[i + 1].b = "T")
        /\ s[i].b = "T" => (s[i].n = 1 /\ i > 1 /\ s[i - 1].b = "L")

\* s.chars().count() of a valid text: every byte but a continuation byte
\* starts a character.
RECURSIVE CharCount(_)
CharCount(s) ==
    IF s = <<>> THEN 0
    ELSE (IF Head(s).b = "T" THEN 0 ELSE Head(s).n) + CharCount(Tail(s))

\* A count that takes the characters of a chunk that does not decode to be
\* the bytes that start one.
CountCodepoints_StartBytes(bytes) == CharCount(bytes)

\* The amount a chunk adds to OutputBuilder::codepoints.
CountCodepoints(bytes) ==
    IF ValidUtf8(bytes) THEN CharCount(bytes) ELSE ByteLen(bytes)

\* Off by one: the count may pass the budget by one before it is noticed.
Overflowed_OffByOne(cp) == cp > MAX_OUTPUT_CODEPOINTS + 1

\* Whether the running count has left the budget.
Overflowed(cp) == cp > MAX_OUTPUT_CODEPOINTS

\* ------------------------------------------------------------------ inputs
RECURSIVE SeqsUpTo(_, _)
SeqsUpTo(S, n) ==
    IF n = 0 THEN {<<>>}
    ELSE LET shorter == SeqsUpTo(S, n - 1)
         IN  shorter \cup {Append(s, x) : s \in {t \in shorter : Len(t) = n - 1}, x \in S}

\* shiplift::tty::TtyChunk: the stream a chunk was written to and its bytes.
StdOut(bytes) == [kind |-> "StdOut", bytes |-> bytes]
StdErr(bytes) == [kind |-> "StdErr", bytes |-> bytes]

\* The chunks a program may write: a character, a backtick on the other
\* stream, a two-byte character, the two halves of a two-byte character split
\* over chunks (and over the streams), and one chunk of backticks that nearly
\* fills the budget.
BigChunk == StdOut(Run("tick", MAX_OUTPUT_CODEPOINTS - 1))

Chunks ==
    { StdOut(Run("a", 1)), StdErr(Run("tick", 1)), StdOut(Run("L", 1) \o Run("T", 1)),
      StdErr(Run("L", 1)), StdOut(Run("T", 1)), BigChunk }

\* A drain that keeps only what was written to stdout.
Payload_StdoutOnly(chunk) == IF chunk.kind = "StdOut" THEN chunk.bytes ELSE <<>>

\* TtyChunk::StdOut(ref mut bytes) | TtyChunk::StdErr(ref mut bytes): both
\* arms bind the chunk's bytes.
Payload(chunk) ==
    CASE chunk.kind = "StdOut" -> chunk.bytes
      [] chunk.kind = "StdErr" -> chunk.bytes

ExitStatuses == {0, 123}

\* A program writes its chunks in order and then exits with `status`, or
\* (exits = FALSE) never exits on its own.
Programs ==
    { p \in [chunks : SeqsUpTo(Chunks, MaxChunks), exits : BOOLEAN, status : ExitStatuses] :
        p.exits \/ p.status = 0 }

\* The configuration of the one CodeRunner the bot creates.
RunnerCpus == 1
RunnerMemory == 128 * 1024 * 1024

\* Sh::run_spec and Python::run_spec with its default options.
ShSpec == [image_name |-> "sh", code_path |-> "run.sh"]
PythonSpec == [image_name |-> "python3.9-scipy", code_path |-> "run.py"]
RunSpecs == {ShSpec, PythonSpec}

\* format!("codie/{}", spec.image_name)
ImageOf(s) == <<"codie/", s.image_name>>

\* ---------------------------------------------------------- options_parser
\* A text is a sequence of characters.  The characters of option texts:
\* two letters, a digit, the equals sign, the space, the quote, the backslash.
Alpha == {"j", "k"}
Digit == {"1"}

\* What multispace0 and multispace1 take: space, tab, line feed, carriage
\* return.
Multispace == {" ", "\t", "\n", "\r"}

\* IResult: Ok((rest, out)), Err(Err::Error) and Err(Err::Failure).
POk(rest, out) == [st |-> "Ok", rest |-> rest, out |-> out]
PError == [st |-> "Error", rest |-> <<>>, out |-> <<>>]
PFailure == [st |-> "Failure", rest |-> <<>>, out |-> <<>>]

\* The length of the longest prefix of i made of characters of S.
RECURSIVE PrefixLen(_, _)
PrefixLen(i, S) ==
    IF i = <<>> \/ Head(i) \notin S THEN 0 ELSE 1 + PrefixLen(Tail(i), S)

\* The longest prefix of characters outside `stop`.
RECURSIVE PrefixLenNot(_, _)
PrefixLenNot(i, stop) ==
    IF i = <<>> \/ Head(i) \in stop THEN 0 ELSE 1 + PrefixLenNot(Tail(i), stop)

Split(i, n) == POk(SubSeq(i, n + 1, Len(i)), SubSeq(i, 1, n))

\* nom::bytes::complete::is_not: the longest prefix outside `stop`, which
\* must not be empty.
SplitNonEmpty(i, n) == IF n = 0 THEN PError ELSE Split(i, n)
is_not(i, stop) == SplitNonEmpty(i, PrefixLenNot(i, stop))

\* An unquoted value that may run over the quote character.
quoteless_string_OverQuotes(i) == is_not(i, {" "})

quoteless_string(i) == is_not(i, {" ", "\""})

\* alt((value("\\", tag("\\")), value("\"", tag("\"")))): what may follow the
\* backslash.
EscapeArm(i) ==
    IF i # <<>> /\ Head(i) \in {"\\", "\""} THEN POk(Tail(i), <<Head(i)>>) ELSE PError

\* nom::bytes::complete::escaped_transform with is_not("\\\"") as the normal
\* parser and the backslash as control character; atStart is index == 0.
\* Each turn of its loop tries the normal parser (AfterNormal takes its
\* result), then the control character and the transform (AfterControl takes
\* the result of the transform).
RECURSIVE escaped_transform(_, _, _)
RECURSIVE AfterNormal(_, _, _, _)
RECURSIVE AfterControl(_, _)

AfterControl(res, arm) ==
    IF arm.st = "Ok" THEN escaped_transform(arm.rest, res \o arm.out, FALSE) ELSE PError

AfterNormal(i, res, atStart, normal) ==
    IF normal.st = "Ok" THEN escaped_transform(normal.rest, res \o normal.out, FALSE)
    ELSE IF Head(i) = "\\"
         THEN IF Len(i) = 1 THEN PError ELSE AfterControl(res, EscapeArm(Tail(i)))
         ELSE IF atStart THEN PError ELSE POk(i, res)

escaped_transform(i, res, atStart) ==
    IF i = <<>> THEN POk(<<>>, res)
    ELSE AfterNormal(i, res, atStart, is_not(i, {"\\", "\""}))

\* cut(terminated(.., char('"'))): the closing quote after the body e, and a
\* Failure for whatever went wrong after the opening quote.
ClosingQuote(e) ==
    IF e.st = "Ok" /\ e.rest # <<>> /\ Head(e.rest) = "\""
    THEN POk(Tail(e.rest), e.out)
    ELSE PFailure

\* preceded(char('"'), cut(terminated(escaped_transform(..), char('"'))))
quoted_string(i) ==
    IF i = <<>> \/ Head(i) # "\"" THEN PError
    ELSE ClosingQuote(escaped_transform(Tail(i), <<>>, TRUE))

\* alt: the second parser is tried when the first, with result q, failed.
OrQuoted(q, i) == IF q.st = "Ok" THEN q ELSE quoted_string(i)

\* alt((map(quoteless_string, String::from), quoted_string))
string(i) == OrQuoted(quoteless_string(i), i)

\* recognize(pair(alt((alpha1, tag("_"))), many0(alt((alphanumeric1, tag("_"))))))
identifier(i) ==
    IF i = <<>> \/ Head(i) \notin Alpha \cup {"_"} THEN PError
    ELSE Split(i, 1 + PrefixLen(Tail(i), Alpha \cup Digit \cup {"_"}))

\* separated_pair: the value v after the key k and the equals sign.
PairOf(k, v) == IF v.st # "Ok" THEN v ELSE POk(v.rest, <<k.out, v.out>>)

\* separated_pair: the equals sign and the value after the key k.
AfterKey(k) ==
    IF k.st # "Ok" THEN k
    ELSE IF k.rest = <<>> \/ Head(k.rest) # "=" THEN PError
    ELSE PairOf(k, string(Tail(k.rest)))

\* separated_pair(identifier, char('='), string)
key_value(i) == AfterKey(identifier(i))

\* The loop of separated_list0(multispace1, key_value): after each pair a
\* separator of n characters and another pair kv, or the end of the list
\* before the separator.
RECURSIVE ListRest(_, _)
RECURSIVE AfterSeparator(_, _, _)
RECURSIVE AfterElement(_, _, _)

AfterElement(i, res, kv) ==
    IF kv.st = "Ok" THEN ListRest(kv.rest, Append(res, kv.out))
    ELSE IF kv.st = "Error" THEN POk(i, res)
    ELSE kv

AfterSeparator(i, res, n) ==
    IF n = 0 THEN POk(i, res)
    ELSE AfterElement(i, res, key_value(SubSeq(i, n + 1, Len(i))))

ListRest(i, res) == AfterSeparator(i, res, PrefixLen(i, Multispace))

\* separated_list0: the first pair kv, or the empty list.
AfterFirst(i, kv) ==
    IF kv.st = "Ok" THEN ListRest(kv.rest, <<kv.out>>)
    ELSE IF kv.st = "Error" THEN POk(i, <<>>)
    ELSE kv

separated_list0(i) == AfterFirst(i, key_value(i))

\* terminated(.., multispace0): the white space after the list l.
ThenMultispace0(l) ==
    IF l.st # "Ok" THEN l
    ELSE POk(SubSeq(l.rest, PrefixLen(l.rest, Multispace) + 1, Len(l.rest)), l.out)

\* terminated(separated_list0(multispace1, key_value), multispace0)
config(i) == ThenMultispace0(separated_list0(i))

\* Results of parse_options.
OptionsOk(m) == [kind |-> "Ok", map |-> m]
OptionsErr(why) == [kind |-> "Err", why |-> why]

\* HashMap::new()
EmptyMap == [k \in {} |-> <<>>]

\* &str and String::from: the text of a run of characters.
RECURSIVE Str(_)
Str(cs) == IF cs = <<>> THEN "" ELSE Head(cs) \o Str(Tail(cs))

\* map.insert(key, val)
Insert(m, key, val) == [k \in DOMAIN m \cup {key} |-> IF k = key THEN val ELSE m[k]]

\* The insert loop of a parser that lets a later pair replace an earlier one.
RECURSIVE InsertAll_LastWins(_, _)
InsertAll_LastWins(vec, m) ==
    IF vec = <<>> THEN OptionsOk(m)
    ELSE InsertAll_LastWins(Tail(vec), Insert(m, Str(Head(vec)[1]), Str(Head(vec)[2])))

\* for (key, val) in vec { if map.insert(key, val).is_some() { return Err } }
RECURSIVE InsertAll(_, _)
InsertAll(vec, m) ==
    IF vec = <<>> THEN OptionsOk(m)
    ELSE IF Str(Head(vec)[1]) \in DOMAIN m THEN OptionsErr("duplicate key")
    ELSE InsertAll(Tail(vec), Insert(m, Str(Head(vec)[1]), Str(Head(vec)[2])))

\* match config(conf) { Ok(("", vec)) => .., Ok((input, _)) => .., Err(err) => .. }
MatchConfig(r) ==
    IF r.st = "Ok" /\ r.rest = <<>> THEN InsertAll(r.out, EmptyMap)
    ELSE IF r.st = "Ok" THEN OptionsErr("did not consume entire input")
    ELSE OptionsErr("parse error")

parse_options(conf) == MatchConfig(config(conf))

\* -------------------------------------------------------------- languages
\* The pieces of an image_name: a literal, or the value bound to an option.
FmtLit(str) == [lit |-> str, arg |-> ""]
FmtArg(key) == [lit |-> "", arg |-> key]

\* inventory::iter::<LangRef>: every variant lang.rs submits, each with its
\* codes, the keys of its bind_opts! with their defaults and the values its
\* match arms name, the pieces of its image_name, and its code_path.
Catalog ==
    <<
      \* Sh (lang.rs:89)
      [name |-> "Sh",
       codes |-> << <<"s", "h">> >>,
       keys |-> <<>>,
       image_name |-> <<FmtLit("sh")>>,
       code_path |-> "run.sh"],
      \* Bash (lang.rs:107)
      [name |-> "Bash",
       codes |-> << <<"b", "a", "s", "h">> >>,
       keys |-> <<>>,
       image_name |-> <<FmtLit("bash")>>,
       code_path |-> "run.sh"],
      \* Zsh (lang.rs:126)
      [name |-> "Zsh",
       codes |-> << <<"z", "s", "h">> >>,
       keys |-> <<>>,
       image_name |-> <<FmtLit("zsh")>>,
       code_path |-> "run.sh"],
      \* Python (lang.rs:145)
      [name |-> "Python",
       codes |-> << <<"p", "y", "t", "h", "o", "n">>, <<"p", "y">>, <<"g", "y", "p">> >>,
       keys |-> <<[key |-> "version", default |-> "3.9", allowed |-> {"3.9", "3.8", "3.7", "3.6"}],
                 [key |-> "bundle", default |-> "scipy", allowed |-> {"none", "scipy"}]>>,
       image_name |-> <<FmtLit("python"), FmtArg("version"), FmtLit("-"), FmtArg("bundle")>>,
       code_path |-> "run.py"],
      \* JavaScript (lang.rs:177)
      [name |-> "JavaScript",
       codes |-> << <<"j", "a", "v", "a", "s", "c", "r", "i", "p", "t">>, <<"j", "s">>, <<"j", "s", "x">> >>,
       keys |-> <<[key |-> "version", default |-> "15", allowed |-> {"15", "14", "12", "10"}]>>,
       image_name |-> <<FmtLit("nodejs"), FmtArg("version")>>,
       code_path |-> "index.js"],
      \* TypeScript (lang.rs:201)
      [name |-> "TypeScript",
       codes |-> << <<"t", "y", "p", "e", "s", "c", "r", "i", "p", "t">>, <<"t", "s">> >>,
       keys |-> <<>>,
       image_name |-> <<FmtLit("typescript")>>,
       code_path |-> "index.ts"],
      \* Perl (lang.rs:239)
      [name |-> "Perl",
       codes |-> << <<"p", "e", "r", "l">>, <<"p", "l">>, <<"p", "m">> >>,
       keys |-> <<>>,
       image_name |-> <<FmtLit("perl")>>,
       code_path |-> "run.pl"],
      \* PHP (lang.rs:257)
      [name |-> "PHP",
       codes |-> << <<"p", "h", "p">>, <<"p", "h", "p", "3">>, <<"p", "h", "p", "4">>, <<"p", "h", "p", "5">>, <<"p", "h", "p", "6">>, <<"p", "h", "p", "7">>, <<"p", "h", "p", "8">> >>,
       keys |-> <<>>,
       image_name |-> <<FmtLit("php")>>,
       code_path |-> "run.php"],
      \* Ruby (lang.rs:275)
      [name |-> "Ruby",
       codes |-> << <<"r", "u", "b", "y">>, <<"r", "b">>, <<"g", "e", "m", "s", "p", "e", "c">>, <<"p", "o", "d", "s", "p", "e", "c">>, <<"t", "h", "o", "r">>, <<"i", "r", "b">> >>,
       keys |-> <<[key |-> "version", default |-> "3.0", allowed |-> {"3.0", "2.7", "2.6", "2.5"}]>>,
       image_name |-> <<FmtLit("ruby"), FmtArg("version")>>,
       code_path |-> "run.rb"],
      \* Lua (lang.rs:300)
      [name |-> "Lua",
       codes |-> << <<"l", "u", "a">> >>,
       keys |-> <<[key |-> "version", default |-> "5.4", allowed |-> {"5.4", "5.3", "5.2", "5.1"}]>>,
       image_name |-> <<FmtLit("lua"), FmtArg("version")>>,
       code_path |-> "run.lua"],
      \* Julia (lang.rs:326)
      [name |-> "Julia",
       codes |-> << <<"j", "u", "l", "i", "a">>, <<"j", "u", "l", "i", "a", "-", "r", "e", "p", "l">> >>,
       keys |-> <<[key |-> "version", default |-> "1.6", allowed |-> {"1.6", "1.5", "1.0"}]>>,
       image_name |-> <<FmtLit("julia"), FmtArg("version")>>,
       code_path |-> "run.jl"],
      \* R (lang.rs:350)
      [name |-> "R",
       codes |-> << <<"r">> >>,
       keys |-> <<>>,
       image_name |-> <<FmtLit("r")>>,
       code_path |-> "run.R"],
      \* Go (lang.rs:368)
      [name |-> "Go",
       codes |-> << <<"g", "o">>, <<"g", "o", "l", "a", "n", "g">> >>,
       keys |-> <<[key |-> "version", default |-> "1.16", allowed |-> {"1.16", "1.15"}]>>,
       image_name |-> <<FmtLit("golang"), FmtArg("version")>>,
       code_path |-> "main.go"],
      \* Java (lang.rs:402)
      [name |-> "Java",
       codes |-> << <<"j", "a", "v", "a">>, <<"j", "s", "p">> >>,
       keys |-> <<[key |-> "version", default |-> "15", allowed |-> {"17", "16", "15", "11", "8"}]>>,
       image_name |-> <<FmtLit("java-openjdk"), FmtArg("version")>>,
       code_path |-> "code"],
      \* Kotlin (lang.rs:437)
      [name |-> "Kotlin",
       codes |-> << <<"k", "o", "t", "l", "i", "n">>, <<"k", "t">> >>,
       keys |-> <<>>,
       image_name |-> <<FmtLit("kotlin")>>,
       code_path |-> "main.kt"],
      \* Groovy (lang.rs:473)
      [name |-> "Groovy",
       codes |-> << <<"g", "r", "o", "o", "v", "y">> >>,
       keys |-> <<[key |-> "version", default |-> "3.0", allowed |-> {"4.0", "3.0"}]>>,
       image_name |-> <<FmtLit("groovy"), FmtArg("version")>>,
       code_path |-> "run.groovy"],
      \* CSharp (lang.rs:497)
      [name |-> "CSharp",
       codes |-> << <<"c", "s", "h", "a", "r", "p">>, <<"c", "s">> >>,
       keys |-> <<>>,
       image_name |-> <<FmtLit("csharp")>>,
       code_path |-> "main.cs"],
      \* Swift (lang.rs:523)
      [name |-> "Swift",
       codes |-> << <<"s", "w", "i", "f", "t">> >>,
       keys |-> <<[key |-> "version", default |-> "5.3", allowed |-> {"5.3", "5.2", "5.1"}]>>,
       image_name |-> <<FmtLit("swift"), FmtArg("version")>>,
       code_path |-> "main.swift"],
      \* Haskell (lang.rs:547)
      [name |-> "Haskell",
       codes |-> << <<"h", "a", "s", "k", "e", "l", "l">>, <<"h", "s">> >>,
       keys |-> <<>>,
       image_name |-> <<FmtLit("haskell")>>,
       code_path |-> "main.hs"],
      \* Elixir (lang.rs:571)
      [name |-> "Elixir",
       codes |-> << <<"e", "l", "i", "x", "i", "r">> >>,
       keys |-> <<[key |-> "version", default |-> "1.11", allowed |-> {"1.11", "1.10", "1.9", "1.8", "1.7", "1.6"}]>>,
       image_name |-> <<FmtLit("elixir"), FmtArg("version")>>,
       code_path |-> "run.exs"],
      \* OCaml (lang.rs:595)
      [name |-> "OCaml",
       codes |-> << <<"o", "c", "a", "m", "l">>, <<"m", "l">> >>,
       keys |-> <<>>,
       image_name |-> <<FmtLit("ocaml")>>,
       code_path |-> "main.ml"],
      \* C (lang.rs:614)
      [name |-> "C",
       codes |-> << <<"c">>, <<"h">> >>,
       keys |-> <<>>,
       image_name |-> <<FmtLit("c-gcc")>>,
       code_path |-> "main.c"],
      \* Cpp (lang.rs:641)
      [name |-> "Cpp",
       codes |-> << <<"c", "p", "p">>, <<"h", "p", "p">>, <<"c", "c">>, <<"h", "h">>, <<"c", "+", "+">>, <<"h", "+", "+">>, <<"c", "x", "x">>, <<"h", "x", "x">> >>,
       keys |-> <<>>,
       image_name |-> <<FmtLit("cpp-gcc")>>,
       code_path |-> "main.cpp"],
      \* Rust (lang.rs:668)
      [name |-> "Rust",
       codes |-> << <<"r", "u", "s", "t">>, <<"r", "s">> >>,
       keys |-> <<>>,
       image_name |-> <<FmtLit("rust")>>,
       code_path |-> "main.rs"],
      \* Fortran (lang.rs:693)
      [name |-> "Fortran",
       codes |-> << <<"f", "o", "r", "t", "r", "a", "n">>, <<"f", "9", "0">>, <<"f", "9", "5">> >>,
       keys |-> <<>>,
       image_name |-> <<FmtLit("fortran")>>,
       code_path |-> "main.f95"]
    >>

\* Results of run_spec.
ResolveOk(s) == [kind |-> "Ok", spec |-> s]
UnknownKeys(ks) == [kind |-> "UnknownKeys", keys |-> ks]
UnknownValue(v) == [kind |-> "UnknownValue", value |-> v]

\* The keys a variant names in bind_opts.
Declared(v) == {v.keys[n].key : n \in 1..Len(v.keys)}

\* A binding that forgets the defaults: an absent key is bound to nothing.
Bound_NoDefault(v, m) == [k \in Declared(v) |-> IF k \in DOMAIN m THEN m[k] ELSE ""]

\* bind_opts: every declared key is removed from the map and bound to its
\* value or, when absent, to its default.
Bound(v, m) ==
    [k \in Declared(v) |->
        IF k \in DOMAIN m THEN m[k]
        ELSE v.keys[CHOOSE n \in 1..Len(v.keys) : v.keys[n].key = k].default]

\* What is left of the map after the removals.
Leftover(v, m) == DOMAIN m \ Declared(v)

\* A resolution that matches on its first bound value only.
Offending_FirstOnly(v, m) ==
    {n \in 1..Len(v.keys) : n = 1 /\ Bound(v, m)[v.keys[n].key] \notin v.keys[n].allowed}

\* The declared keys, in order, whose bound value no arm of the match names.
Offending(v, m) ==
    {n \in 1..Len(v.keys) : Bound(v, m)[v.keys[n].key] \notin v.keys[n].allowed}

\* A name made of the bound values alone, without the literal pieces.
RECURSIVE FormatImageName_ValuesOnly(_, _)
FormatImageName_ValuesOnly(pieces, bound) ==
    IF pieces = <<>> THEN ""
    ELSE (IF Head(pieces).arg = "" THEN "" ELSE bound[Head(pieces).arg])
         \o FormatImageName_ValuesOnly(Tail(pieces), bound)

\* format!: the pieces of the name with the bound values in place.
RECURSIVE FormatImageName(_, _)
FormatImageName(pieces, bound) ==
    IF pieces = <<>> THEN ""
    ELSE (IF Head(pieces).arg = "" THEN Head(pieces).lit ELSE bound[Head(pieces).arg])
         \o FormatImageName(Tail(pieces), bound)

\* A resolution that reports unknown keys only after the values were checked.
run_spec_ValuesFirst(v, m) ==
    IF Offending(v, m) # {}
    THEN UnknownValue(Bound(v, m)[v.keys[CHOOSE n \in Offending(v, m) :
                                             \A k \in Offending(v, m) : n <= k].key])
    ELSE IF Leftover(v, m) # {} THEN UnknownKeys(Leftover(v, m))
    ELSE ResolveOk([image_name |-> FormatImageName(v.image_name, Bound(v, m)),
                    code_path |-> v.code_path])

\* Language::run_spec: bind_opts, then the match on each bound value in
\* turn, then the RunSpec.
run_spec(v, m) ==
    IF Leftover(v, m) # {} THEN UnknownKeys(Leftover(v, m))
    ELSE IF Offending(v, m) # {}
    THEN UnknownValue(Bound(v, m)[v.keys[CHOOSE n \in Offending(v, m) :
                                             \A k \in Offending(v, m) : n <= k].key])
    ELSE ResolveOk([image_name |-> FormatImageName(v.image_name, Bound(v, m)),
                    code_path |-> v.code_path])

\* ASCII letters, for unicase::Ascii.
UpperCase ==
    <<"A", "B", "C", "D", "E", "F", "G", "H", "I", "J", "K", "L", "M",
      "N", "O", "P", "Q", "R", "S", "T", "U", "V", "W", "X", "Y", "Z">>
LowerCase ==
    <<"a", "b", "c", "d", "e", "f", "g", "h", "i", "j", "k", "l", "m",
      "n", "o", "p", "q", "r", "s", "t", "u", "v", "w", "x", "y", "z">>

\* to_ascii_lowercase of one character: nothing but A-Z changes.
ToLower(c) ==
    IF \E n \in 1..Len(UpperCase) : UpperCase[n] = c
    THEN LowerCase[CHOOSE n \in 1..Len(UpperCase) : UpperCase[n] = c]
    ELSE c

\* A table keyed by the exact characters of a code.
AsciiKey_Exact(code) == code

\* The identity of an Ascii<&str> key: Eq and Hash of unicase::Ascii ignore
\* ASCII case.
AsciiKey(code) == [n \in 1..Len(code) |-> ToLower(code[n])]

\* The (code, variant) pairs main inserts, in order.
RECURSIVE CodePairs(_)
CodePairs(inv) ==
    IF inv = <<>> THEN <<>>
    ELSE [n \in 1..Len(Head(inv).codes) |-> <<Head(inv).codes[n], Head(inv).name>>]
         \o CodePairs(Tail(inv))

\* main: langs.insert(c, lang) for every code of every variant, and a panic
\* when the code is already there.
RECURSIVE Register(_, _)
Register(pairs, table) ==
    IF pairs = <<>> THEN [kind |-> "Ok", table |-> table]
    ELSE IF AsciiKey(Head(pairs)[1]) \in DOMAIN table THEN [kind |-> "panic", table |-> table]
    ELSE Register(Tail(pairs), Insert(table, AsciiKey(Head(pairs)[1]), Head(pairs)[2]))

\* A variant with a code that is Python's but for its case.
ClashLang ==
    [name |-> "Clash",
     codes |-> << <<"c", "l", "a", "s", "h">>, <<"P", "Y">> >>,
     keys |-> <<>>,
     image_name |-> <<FmtLit("clash")>>,
     code_path |-> "run.clash"]

\* The sets of variants a build of the bot may register, by name: the
\* catalog of lang.rs, and the catalog with the clashing variant linked in
\* after or before it.
InventoryOf(id) ==
    CASE id = "catalog" -> Catalog
      [] id = "catalog, clash" -> Append(Catalog, ClashLang)
      [] id = "clash, catalog" -> <<ClashLang>> \o Catalog

\* What the loop in main makes of each of them.
CatalogTable == Register(CodePairs(InventoryOf("catalog")), EmptyMap)
ClashLastTable == Register(CodePairs(InventoryOf("catalog, clash")), EmptyMap)
ClashFirstTable == Register(CodePairs(InventoryOf("clash, catalog")), EmptyMap)

Startup(id) ==
    CASE id = "catalog" -> CatalogTable
      [] id = "catalog, clash" -> ClashLastTable
      [] id = "clash, catalog" -> ClashFirstTable

\* The variant of a name; a LangRef is kept as the variant's name.
Variant(name) ==
    LET inv == InventoryOf("catalog, clash")
    IN  inv[CHOOSE n \in 1..Len(inv) : inv[n].name = name]

\* Option<LangRef>::None
NoLang == "None"

\* CodeRunner::get_lang_by_code
get_lang_by_code(table, code) ==
    IF AsciiKey(code) \in DOMAIN table THEN table[AsciiKey(code)] ELSE NoLang

VARIABLES
    \* the container engine
    images,      \* the tags of the images that exist
    containers,  \* the containers created so far; a container's id is its index
    \* the request's input
    prog,        \* what the submitted source does when run
    spec,        \* the RunSpec of the request's language and options
    msg,         \* the RunMessage parsed from the message: option text, language tag
    opts,        \* what parse_options returned
    lang,        \* what get_lang_by_code returned
    resolved,    \* what run_spec returned
    \* the process
    inventory,   \* which variants are registered with inventory::submit!
    langs,       \* CodeRunner::langs: whether main has built the table
    \* one run_code invocation
    pc,          \* where the invocation stands
    cid,         \* the container it created (0: none)
    buf,         \* OutputBuilder::buf
    codepoints,  \* OutputBuilder::codepoints
    logs,        \* OutputBuilder::logs is Some
    logsPos,     \* the chunks the log stream has delivered
    exit,        \* the Exit the invocation holds (status_code)
    reason,      \* how the timed race ended
    calls,       \* the engine calls the invocation has made, with their answers
    result,      \* what the invocation returned
    \* try_run_raw
    reqPc,       \* where the caller stands
    attempt,     \* which run_code call of the request this is
    progress,    \* progress records read from the build stream
    hist,        \* the caller's calls and what they returned, in order
    sent,        \* the bodies sent on the channel, in order
    \* Handler::message
    rx,          \* the receiving half of the join: its position, the bodies it
                 \* took, what the reply shows, the message_ids.insert calls
    \* a second request, in flight at the same time
    other        \* its input and the state of its try_run_raw and run_code

runVars == <<pc, cid, buf, codepoints, logs, logsPos, exit, reason, calls, result>>
reqVars == <<reqPc, attempt, progress, hist, sent>>
vars == <<images, containers, prog, spec, other, msg, opts, lang, resolved, inventory, langs, rx, pc, cid, buf, codepoints, logs, logsPos,
          exit, reason, calls, result, reqPc, attempt, progress, hist, sent>>

NoResult == [kind |-> "none", status |-> 0, tty |-> <<>>]
ErrResult(k) == [kind |-> k, status |-> 0, tty |-> <<>>]
OkResult(st, text) == [kind |-> "Ok", status |-> st, tty |-> text]

Call(op, resp) == [op |-> op, resp |-> resp]

\* The image of the active request.
Image == ImageOf(spec)

\* A request as it is when try_run_raw calls run_code for the first time.
\* The variant whose run_spec with no options gives the RunSpec s.
LangOf(s) ==
    CHOOSE n \in 1..Len(Catalog) : Catalog[n].name = (IF s = ShSpec THEN "Sh" ELSE "Python")

\* RunMessage { opts, lang, .. } as parse_message returns it.
RunMessage(o, l) == [opts |-> o, lang |-> l]

\* parse_message found no match of CMD_RUN_ALL: None.
NoRunMessage == [kind |-> "None"]

\* The reply loop of Handler::message before its first receive: no body
\* taken, no reply shown, nothing inserted into message_ids.
NewReceiver ==
    [pc |-> "first", received |-> 0, reply |-> [kind |-> "none", text |-> <<>>],
     inserted |-> 0]

NewRequest(p, s) ==
    [prog |-> p, spec |-> s, msg |-> RunMessage(<<>>, Catalog[LangOf(s)].codes[1]),
     opts |-> OptionsOk(EmptyMap), lang |-> Catalog[LangOf(s)].name,
     resolved |-> ResolveOk(s), pc |-> "create", cid |-> 0, buf |-> <<>>,
     codepoints |-> 0, logs |-> FALSE, logsPos |-> 0, exit |-> 0, reason |-> "none",
     calls |-> <<>>, result |-> NoResult, reqPc |-> "run_code", attempt |-> 1,
     progress |-> 0, hist |-> <<"run_code">>, sent |-> <<>>]

\* No second request: one that has ended without having done anything.
NoRequest ==
    [NewRequest([chunks |-> <<>>, exits |-> TRUE, status |-> 0], PythonSpec)
         EXCEPT !.pc = "idle", !.reqPc = "done", !.hist = <<>>]

Init ==
    /\ inventory = "catalog"
    /\ rx = NewReceiver
    /\ langs = "built"
    /\ spec = PythonSpec
    /\ msg = NewRequest(<<>>, spec).msg
    /\ opts = NewRequest(<<>>, spec).opts
    /\ lang = NewRequest(<<>>, spec).lang
    /\ resolved = NewRequest(<<>>, spec).resolved
    /\ other = NoRequest
    /\ images \in {{}, {Image}}
    /\ containers = <<>>
    /\ prog \in Programs
    /\ pc = "create"
    /\ cid = 0
    /\ buf = <<>>
    /\ codepoints = 0
    /\ logs = FALSE
    /\ logsPos = 0
    /\ exit = 0
    /\ reason = "none"
    /\ calls = <<>>
    /\ result = NoResult
    /\ reqPc = "run_code"
    /\ attempt = 1
    /\ progress = 0
    /\ hist = <<"run_code">>
    /\ sent = <<>>

\* ------------------------------------------------------ the container engine
\* A profile in which the language decides the privileges and the memory.
ContainerOptions_PerLanguage(s) ==
    [image |-> ImageOf(s), user |-> "65534:65534", capabilities |-> {},
     privileged |-> (s.image_name = "sh"), network_mode |-> "none",
     working_dir |-> "/tmp", cpus |-> RunnerCpus,
     memory |-> IF s.image_name = "sh" THEN 0 ELSE RunnerMemory,
     stop_signal |-> "SIGKILL", stop_timeout |-> 0]

\* shiplift::ContainerOptions::builder(..)...build() in run_code.
ContainerOptions(s) ==
    [image |-> ImageOf(s), user |-> "65534:65534", capabilities |-> {},
     privileged |-> FALSE, network_mode |-> "none", working_dir |-> "/tmp",
     cpus |-> RunnerCpus, memory |-> RunnerMemory,
     stop_signal |-> "SIGKILL", stop_timeout |-> 0]

\* A container before anything was copied into it.
NoFile == [path |-> "", code |-> [chunks |-> <<>>, exits |-> TRUE, status |-> 0]]

NewContainer(container_opts) ==
    [status |-> "created", opts |-> container_opts, file |-> NoFile, emitted |-> 0,
     exit |-> 0]

\* The program a container runs: the file copied into it.
CodeOf(c) == containers[c].file.code

\* What the engine may answer to create: 404 exactly when the image is
\* missing, and a transport error at any time.
CreateAnswers == IF Image \in images THEN {"ok", "err"} ELSE {"404", "err"}

\* A create that fetches a missing image itself, as `docker run` does.
EngineCreate_Pulls(resp) ==
    /\ images' = IF resp = "404" THEN images \cup {Image} ELSE images
    /\ containers' = IF resp = "ok" THEN Append(containers, NewContainer(ContainerOptions(spec))) ELSE containers

\* The engine's side of containers().create: a container on success, and
\* never an image.
EngineCreate(resp) ==
    /\ images' = images
    /\ containers' = IF resp = "ok" THEN Append(containers, NewContainer(ContainerOptions(spec))) ELSE containers

\* The program inside a running container writes its next chunk.
ContainerEmit ==
    /\ \E c \in 1..Len(containers) :
        /\ containers[c].status = "running"
        /\ containers[c].emitted < Len(CodeOf(c).chunks)
        /\ containers' = [containers EXCEPT ![c].emitted = @ + 1]
    /\ UNCHANGED <<images, prog, spec, other, msg, opts, lang, resolved, inventory, langs, rx>>
    /\ UNCHANGED runVars
    /\ UNCHANGED reqVars

\* The program exits on its own once it has written everything.
ContainerExit ==
    /\ \E c \in 1..Len(containers) :
        /\ containers[c].status = "running"
        /\ containers[c].emitted = Len(CodeOf(c).chunks)
        /\ CodeOf(c).exits
        /\ containers' = [containers EXCEPT ![c].status = "exited",
                                            ![c].exit = CodeOf(c).status]
    /\ UNCHANGED <<images, prog, spec, other, msg, opts, lang, resolved, inventory, langs, rx>>
    /\ UNCHANGED runVars
    /\ UNCHANGED reqVars

\* ---------------------------------------------------------------- run_code
\* A value is returned to the caller.
Return(res) ==
    /\ pc' = "returned"
    /\ result' = res

\* The task unwinds: nothing is returned.
Panic ==
    /\ pc' = "panicked"
    /\ result' = NoResult

\* The match without its 404 arm: every failure is a transport error.
CreateOutcome_No404Arm(resp) ==
    CASE resp = "ok" -> "created"
      [] OTHER -> "Error"

\* The match on create's answer.
CreateOutcome(resp) ==
    CASE resp = "ok" -> "created"
      [] resp = "404" -> "UnrecognizedContainer"
      [] OTHER -> "Error"

\* An id that is the one of the container created last, not a fresh one.
ResponseId_Reused == IF containers = <<>> THEN 1 ELSE Len(containers)

\* response.id: the engine names the new container, and no two alike.
ResponseId == Len(containers) + 1

\* A run_code that starts the container it created without copying the
\* source into it.
Create_SkipsCopy ==
    /\ pc = "create"
    /\ \E resp \in CreateAnswers :
        /\ calls' = Append(calls, Call("create", resp))
        /\ EngineCreate(resp)
        /\ IF CreateOutcome(resp) = "created"
           THEN /\ cid' = ResponseId
                /\ pc' = "start"
                /\ UNCHANGED result
           ELSE /\ Return(ErrResult(CreateOutcome(resp)))
                /\ UNCHANGED cid
    /\ UNCHANGED <<prog, spec, other, msg, opts, lang, resolved, inventory, langs, rx, buf, codepoints, logs, logsPos, exit, reason>>
    /\ UNCHANGED reqVars

Create ==
    /\ pc = "create"
    /\ \E resp \in CreateAnswers :
        /\ calls' = Append(calls, Call("create", resp))
        /\ EngineCreate(resp)
        /\ IF CreateOutcome(resp) = "created"
           THEN /\ cid' = ResponseId
                /\ pc' = "copy"
                /\ UNCHANGED result
           ELSE /\ Return(ErrResult(CreateOutcome(resp)))
                /\ UNCHANGED cid
    /\ UNCHANGED <<prog, spec, other, msg, opts, lang, resolved, inventory, langs, rx, buf, codepoints, logs, logsPos, exit, reason>>
    /\ UNCHANGED reqVars

\* container.copy_file_into(spec.code_path, code.as_bytes()).await?
CopyFileInto ==
    /\ pc = "copy"
    /\ \E resp \in {"ok", "err"} :
        /\ calls' = Append(calls, Call("copy_file_into", resp))
        /\ IF resp = "ok"
           THEN /\ containers' = [containers EXCEPT
                                      ![cid].file = [path |-> spec.code_path, code |-> prog]]
                /\ pc' = "start"
                /\ UNCHANGED result
           ELSE /\ Return(ErrResult("Error"))
                /\ UNCHANGED containers
    /\ UNCHANGED <<images, prog, spec, other, msg, opts, lang, resolved, inventory, langs, rx, cid, buf, codepoints, logs, logsPos, exit, reason>>
    /\ UNCHANGED reqVars

\* container.start().await?, then OutputBuilder::new(container.logs(..)) and
\* the timed race begins with the first extend.
Start ==
    /\ pc = "start"
    /\ \E resp \in {"ok", "err"} :
        /\ calls' = Append(calls, Call("start", resp))
        /\ IF resp = "ok"
           THEN /\ containers' = [containers EXCEPT ![cid].status = "running"]
                /\ pc' = "extend"
                /\ logs' = TRUE
                /\ UNCHANGED result
           ELSE /\ Return(ErrResult("Error"))
                /\ UNCHANGED <<containers, logs>>
    /\ UNCHANGED <<images, prog, spec, other, msg, opts, lang, resolved, inventory, langs, rx, cid, buf, codepoints, logsPos, exit, reason>>
    /\ UNCHANGED reqVars

\* A drain that appends the marker and reports the overflow but keeps its
\* stream (self.logs = None forgotten), so that the next extend reads on.
Extend_KeepsStream ==
    /\ pc \in {"extend", "extend_rest"}
    /\ IF ~logs
       THEN /\ pc' = IF pc = "extend" THEN "stop" ELSE "remove"
            /\ reason' = IF pc = "extend" THEN "overflow" ELSE reason
            /\ UNCHANGED <<buf, codepoints, logs, logsPos, calls, result>>
       ELSE \/ /\ logsPos < containers[cid].emitted
               /\ calls' = Append(calls, Call("logs.next", "chunk"))
               /\ logsPos' = logsPos + 1
               /\ codepoints' = codepoints + CountCodepoints(Payload(prog.chunks[logsPos + 1]))
               /\ IF Overflowed(codepoints')
                  THEN /\ buf' = buf \o Marker
                       /\ pc' = IF pc = "extend" THEN "stop" ELSE "remove"
                       /\ reason' = IF pc = "extend" THEN "overflow" ELSE reason
                  ELSE /\ buf' = buf \o Payload(prog.chunks[logsPos + 1])
                       /\ UNCHANGED <<pc, reason>>
               /\ UNCHANGED <<logs, result>>
            \/ /\ containers[cid].status # "running"
               /\ logsPos = containers[cid].emitted
               /\ calls' = Append(calls, Call("logs.next", "end"))
               /\ logs' = FALSE
               /\ pc' = IF pc = "extend" THEN "wait" ELSE "remove"
               /\ UNCHANGED <<buf, codepoints, logsPos, result, reason>>
            \/ /\ calls' = Append(calls, Call("logs.next", "err"))
               /\ Panic
               /\ UNCHANGED <<buf, codepoints, logs, logsPos, reason>>
    /\ UNCHANGED <<images, containers, prog, spec, other, msg, opts, lang, resolved, inventory, langs, rx, cid, exit>>
    /\ UNCHANGED reqVars

\* A race that stops the container however the drain ended.
AfterExtend_AlwaysStops(ok) ==
    IF pc = "extend"
    THEN /\ pc' = "stop"
         /\ reason' = IF ok THEN reason ELSE "overflow"
    ELSE /\ pc' = "remove"
         /\ reason' = reason

\* Where run_code goes on when extend returns: inside the race Ok leads to
\* wait and Err(overflow) to the forced stop; the extend after the race has
\* its result dropped.
AfterExtend(ok) ==
    IF pc = "extend"
    THEN /\ pc' = IF ok THEN "wait" ELSE "stop"
         /\ reason' = IF ok THEN reason ELSE "overflow"
    ELSE /\ pc' = "remove"
         /\ reason' = reason

\* OutputBuilder::extend, one poll of logs.next() per step.
Extend ==
    /\ pc \in {"extend", "extend_rest"}
    /\ IF ~logs
       THEN \* logs is None: Err(()) at once
            /\ AfterExtend(FALSE)
            /\ UNCHANGED <<buf, codepoints, logs, logsPos, calls, result>>
       ELSE \/ \* Some(Ok(chunk))
               /\ logsPos < containers[cid].emitted
               /\ calls' = Append(calls, Call("logs.next", "chunk"))
               /\ logsPos' = logsPos + 1
               /\ LET bytes == Payload(prog.chunks[logsPos + 1])
                      cp == codepoints + CountCodepoints(bytes)
                  IN  /\ codepoints' = cp
                      /\ IF Overflowed(cp)
                         THEN /\ logs' = FALSE
                              /\ buf' = buf \o Marker
                              /\ AfterExtend(FALSE)
                         ELSE /\ buf' = buf \o bytes
                              /\ UNCHANGED <<logs, pc, reason>>
               /\ UNCHANGED result
            \/ \* None: the stream of an exited container has ended
               /\ containers[cid].status # "running"
               /\ logsPos = containers[cid].emitted
               /\ calls' = Append(calls, Call("logs.next", "end"))
               /\ logs' = FALSE
               /\ AfterExtend(TRUE)
               /\ UNCHANGED <<buf, codepoints, logsPos, result>>
            \/ \* Some(Err(_)): chunk.unwrap()
               /\ calls' = Append(calls, Call("logs.next", "err"))
               /\ Panic
               /\ UNCHANGED <<buf, codepoints, logs, logsPos, reason>>
    /\ UNCHANGED <<images, containers, prog, spec, other, msg, opts, lang, resolved, inventory, langs, rx, cid, exit>>
    /\ UNCHANGED reqVars

\* container.wait().await.unwrap() inside the race.
WaitInRace ==
    /\ pc = "wait"
    /\ \/ /\ containers[cid].status = "exited"
          /\ calls' = Append(calls, Call("wait", "ok"))
          /\ exit' = containers[cid].exit
          /\ pc' = "extend_rest"
          /\ reason' = "finished"
          /\ UNCHANGED result
       \/ /\ calls' = Append(calls, Call("wait", "err"))
          /\ Panic
          /\ UNCHANGED <<exit, reason>>
    /\ UNCHANGED <<images, containers, prog, spec, other, msg, opts, lang, resolved, inventory, langs, rx, cid, buf, codepoints, logs, logsPos>>
    /\ UNCHANGED reqVars

\* The timeout arm without its stop_container call.
Elapsed_NoStop ==
    /\ pc \in {"extend", "wait"}
    /\ pc' = "wait_stopped"
    /\ reason' = "timeout"
    /\ UNCHANGED <<images, containers, prog, spec, other, msg, opts, lang, resolved, inventory, langs, rx, cid, buf, codepoints, logs, logsPos,
                   exit, calls, result>>
    /\ UNCHANGED reqVars

\* tokio::time::timeout: the timer elapses while drain-and-wait is pending.
Elapsed ==
    /\ pc \in {"extend", "wait"}
    /\ pc' = "stop"
    /\ reason' = "timeout"
    /\ UNCHANGED <<images, containers, prog, spec, other, msg, opts, lang, resolved, inventory, langs, rx, cid, buf, codepoints, logs, logsPos,
                   exit, calls, result>>
    /\ UNCHANGED reqVars

\* What the engine may answer to stop: 304 when the container is not
\* running, and an error at any time.
StopAnswers == IF containers[cid].status = "running" THEN {"ok", "err"} ELSE {"304", "err"}

\* The match without its 304 arm.
StopOutcome_No304Arm(resp) ==
    CASE resp = "ok" -> "stopped"
      [] OTHER -> "panic"

\* The match in stop_container.
StopOutcome(resp) ==
    CASE resp = "ok" -> "stopped"
      [] resp = "304" -> "stopped"
      [] OTHER -> "panic"

StopContainer ==
    /\ pc = "stop"
    /\ \E resp \in StopAnswers :
        /\ calls' = Append(calls, Call("stop", resp))
        /\ containers' = IF resp = "ok"
                         THEN [containers EXCEPT ![cid].status = "exited",
                                                 ![cid].exit = KilledStatus]
                         ELSE containers
        /\ IF StopOutcome(resp) = "stopped"
           THEN pc' = "wait_stopped" /\ UNCHANGED result
           ELSE Panic
    /\ UNCHANGED <<images, prog, spec, other, msg, opts, lang, resolved, inventory, langs, rx, cid, buf, codepoints, logs, logsPos, exit, reason>>
    /\ UNCHANGED reqVars

\* The wait after the forced stop going on to remove, without the second
\* extend.
WaitStopped_NoDrain ==
    /\ pc = "wait_stopped"
    /\ \/ /\ containers[cid].status = "exited"
          /\ calls' = Append(calls, Call("wait", "ok"))
          /\ exit' = containers[cid].exit
          /\ pc' = "remove"
          /\ UNCHANGED result
       \/ /\ calls' = Append(calls, Call("wait", "err"))
          /\ Return(ErrResult("Error"))
          /\ UNCHANGED exit
    /\ UNCHANGED <<images, containers, prog, spec, other, msg, opts, lang, resolved, inventory, langs, rx, cid, buf, codepoints, logs, logsPos, reason>>
    /\ UNCHANGED reqVars

\* container.wait().await? after the forced stop.
WaitStopped ==
    /\ pc = "wait_stopped"
    /\ \/ /\ containers[cid].status = "exited"
          /\ calls' = Append(calls, Call("wait", "ok"))
          /\ exit' = containers[cid].exit
          /\ pc' = "extend_rest"
          /\ UNCHANGED result
       \/ /\ calls' = Append(calls, Call("wait", "err"))
          /\ Return(ErrResult("Error"))
          /\ UNCHANGED exit
    /\ UNCHANGED <<images, containers, prog, spec, other, msg, opts, lang, resolved, inventory, langs, rx, cid, buf, codepoints, logs, logsPos, reason>>
    /\ UNCHANGED reqVars

\* An Output that reports success whatever wait returned.
BuildOutput_StatusZero ==
    IF ValidUtf8(buf)
    THEN Return(OkResult(exit - exit, buf))
    ELSE Panic

\* OutputBuilder::build: String::from_utf8(self.buf).unwrap()
BuildOutput ==
    IF ValidUtf8(buf)
    THEN Return(OkResult(exit, buf))
    ELSE Panic

\* container.remove(force).await?, then Ok(Output { status, tty }).  The
\* answer 404 is the engine finding the container already gone.
Remove ==
    /\ pc = "remove"
    /\ \E resp \in {"ok", "404", "err"} :
        /\ calls' = Append(calls, Call("remove", resp))
        /\ containers' = IF resp \in {"ok", "404"}
                         THEN [containers EXCEPT ![cid].status = "removed"]
                         ELSE containers
        /\ IF resp = "ok"
           THEN BuildOutput
           ELSE Return(ErrResult("Error"))
    /\ UNCHANGED <<images, prog, spec, other, msg, opts, lang, resolved, inventory, langs, rx, cid, buf, codepoints, logs, logsPos, exit, reason>>
    /\ UNCHANGED reqVars

\* ------------------------------------------------------ the output encoder
\* A rendered message is a sequence of pieces, each a literal or a text kept
\* as runs of characters.
Lit(str) == [lit |-> str, text |-> <<>>]
Txt(runs) == [lit |-> "", text |-> runs]

\* The code fence and the line feed.
Fence == Run("tick", 3)
Newline == Run("nl", 1)

\* The text as the regex sees it: neighbouring runs of backticks are one run.
RECURSIVE MergeTicks(_)
MergeTicks(s) ==
    IF Len(s) < 2 THEN s
    ELSE IF s[1].b = "tick" /\ s[2].b = "tick"
         THEN MergeTicks(<<[b |-> "tick", n |-> s[1].n + s[2].n]>> \o Tail(Tail(s)))
         ELSE <<Head(s)>> \o MergeTicks(Tail(s))

\* replace in place of replace_all: only the first three backticks of a run
\* are replaced.
EscapeRun_Once(r) ==
    IF r.b # "tick" THEN <<r>>
    ELSE (IF r.n >= 3 THEN Run("U+02CB", 3) ELSE <<r>>)
         \o (IF r.n > 3 THEN Run("tick", r.n - 3) ELSE <<>>)

\* replace_all on one run: every three backticks, from the left, become three
\* U+02CB; what is left of the run stays.
EscapeRun(r) ==
    IF r.b # "tick" THEN <<r>>
    ELSE (IF r.n >= 3 THEN Run("U+02CB", 3 * (r.n \div 3)) ELSE <<>>)
         \o (IF r.n % 3 > 0 THEN Run("tick", r.n % 3) ELSE <<>>)

RECURSIVE EscapeRuns(_)
EscapeRuns(s) == IF s = <<>> THEN <<>> ELSE EscapeRun(Head(s)) \o EscapeRuns(Tail(s))

\* escape_codeblock
escape_codeblock(code) == EscapeRuns(MergeTicks(code))

\* An encoder that never writes the status line.
success_Always(o) == TRUE

\* Output::success
success(o) == o.status = 0

\* impl Display for Output
Display(o) ==
    (IF ~success(o)
     THEN <<Lit("**EXIT STATUS:** "), Lit(ToString(o.status)), Txt(Newline)>>
     ELSE <<>>)
    \o <<Txt(Fence \o Newline), Txt(escape_codeblock(o.tty)), Txt(Fence)>>

\* A body sent on the channel.
Body(kind, text) == [kind |-> kind, text |-> text]

\* mpsc::channel(2)
Capacity == 2

\* The bodies sent and not yet received.
Channel == SubSeq(sent, rx.received + 1, Len(sent))

\* tx.send(body).await: completes once the channel has room.
Send(body) ==
    /\ Len(Channel) < Capacity
    /\ sent' = Append(sent, body)

\* ------------------------------------------------------------- try_run_raw
\* Build-then-retry on any error of the first run_code, without the downcast.
NeedsBuild_AnyError(res, n) == res.kind # "Ok" /\ n = 1

\* Build-then-retry whenever run_code finds no image, the second time as well.
NeedsBuild_EveryTime(res, n) == res.kind = "UnrecognizedContainer"

\* Whether the caller answers a run_code error with build-then-retry: the
\* downcast to UnrecognizedContainer, on the request's first run_code only.
NeedsBuild(res, n) == res.kind = "UnrecognizedContainer" /\ n = 1

\* A bail! that returns without sending.
Bail_Silent ==
    /\ reqPc' = "done"
    /\ UNCHANGED sent

\* bail!: the text is sent and try_run_raw returns.
Bail ==
    /\ Send(Body("error", <<>>))
    /\ reqPc' = "done"

\* The pieces option texts are made of: a key with its equals sign, a digit,
\* a space, a quote, a backslash.
Fragments == { <<"k", "=">>, <<"j", "=">>, <<"1">>, <<" ">>, <<"\"">>, <<"\\">> }

\* The number of pieces of a text: the equals sign comes with its key.
Pieces(text) == Len(text) - Cardinality({n \in 1..Len(text) : text[n] = "="})

\* The opts capture of CMD_RUN_ALL takes one more piece of the message.
ReadOpts ==
    /\ reqPc = "parse_message"
    /\ Pieces(msg.opts) < MaxPieces
    /\ \E f \in Fragments : msg' = [msg EXCEPT !.opts = @ \o f]
    /\ UNCHANGED <<images, containers, prog, spec, other, opts, lang, resolved, inventory, langs, rx>>
    /\ UNCHANGED runVars
    /\ UNCHANGED reqVars

\* let run = match parse_message(msg) { Some(run) => run, None => bail!(..) };
\* if run.lang.is_empty() { bail!(..) }
ParseMessage ==
    /\ reqPc = "parse_message"
    /\ IF msg = NoRunMessage
       THEN Bail
       ELSE IF msg.lang = <<>>
            THEN Bail
            ELSE reqPc' = "parse_options" /\ UNCHANGED sent
    /\ UNCHANGED <<images, containers, prog, spec, other, msg, opts, lang, resolved, inventory, langs, rx,
                   attempt, progress, hist>>
    /\ UNCHANGED runVars

\* let opts = match parse_options(run.opts) { Ok(opts) => opts, Err(err) => bail!(..) }
ParseOptions ==
    /\ reqPc = "parse_options"
    /\ opts' = parse_options(msg.opts)
    /\ IF opts'.kind = "Ok"
       THEN reqPc' = "get_lang" /\ UNCHANGED sent
       ELSE Bail
    /\ UNCHANGED <<images, containers, prog, spec, other, msg, lang, resolved, inventory, langs, rx,
                   attempt, progress, hist>>
    /\ UNCHANGED runVars

\* main: the loop over inventory::iter that fills langs, or panics.
Main ==
    /\ langs = "unbuilt"
    /\ langs' = IF Startup(inventory).kind = "Ok" THEN "built" ELSE "panicked"
    /\ UNCHANGED <<images, containers, prog, spec, other, msg, opts, lang, resolved, inventory, rx>>
    /\ UNCHANGED runVars
    /\ UNCHANGED reqVars

\* let lang_ref = match runner.get_lang_by_code(run.lang) { Some(lang) => lang, None => bail!(..) }
GetLang ==
    /\ langs = "built"
    /\ reqPc = "get_lang"
    /\ lang' = get_lang_by_code(Startup(inventory).table, msg.lang)
    /\ IF lang' # NoLang
       THEN reqPc' = "run_spec" /\ UNCHANGED sent
       ELSE Bail
    /\ UNCHANGED <<images, containers, prog, spec, other, msg, opts, resolved, inventory, langs, rx,
                   attempt, progress, hist>>
    /\ UNCHANGED runVars

\* let run_spec = match lang_ref.run_spec(opts) { Ok(run_spec) => run_spec, Err(err) => bail!(..) }
ResolveRunSpec ==
    /\ reqPc = "run_spec"
    /\ resolved' = run_spec(Variant(lang), opts.map)
    /\ IF resolved'.kind = "Ok"
       THEN /\ spec' = resolved'.spec
            /\ reqPc' = "run_code"
            /\ UNCHANGED sent
       ELSE /\ Bail
            /\ UNCHANGED spec
    /\ UNCHANGED <<images, containers, prog, other, msg, opts, lang, inventory, langs, rx,
                   attempt, progress, hist>>
    /\ UNCHANGED runVars

\* The match on what run_code returned.
RunCodeReturned ==
    /\ reqPc = "run_code"
    /\ pc = "returned"
    /\ pc' = "idle"
    /\ hist' = Append(hist, result.kind)
    /\ IF result.kind = "Ok"
       THEN /\ Send(Body("output", Display(result)))
            /\ reqPc' = "done"
       ELSE IF NeedsBuild(result, attempt)
            THEN /\ Send(Body("Building container", <<>>))
                 /\ reqPc' = "build"
            ELSE /\ Send(Body("error", <<>>))
                 /\ reqPc' = "done"
    /\ UNCHANGED <<images, containers, prog, spec, other, msg, opts, lang, resolved, inventory, langs, rx, cid, buf, codepoints, logs, logsPos,
                   exit, reason, calls, result, attempt, progress>>

\* build: the Dockerfile is written into a fresh temporary directory (each
\* step `?`), then images.build(..) opens the progress stream.
BuildStart ==
    /\ reqPc = "build"
    /\ \E resp \in {"ok", "err"} :
        IF resp = "ok"
        THEN /\ reqPc' = "build_stream"
             /\ hist' = Append(hist, "build")
             /\ UNCHANGED sent
        ELSE /\ reqPc' = "done"
             /\ hist' = hist \o <<"build", "build:Err">>
             /\ Send(Body("error", <<>>))
    /\ UNCHANGED <<images, containers, prog, spec, other, msg, opts, lang, resolved, inventory, langs, rx, attempt, progress>>
    /\ UNCHANGED runVars

\* The request's second run_code call begins.
Retry ==
    /\ pc' = "create"
    /\ cid' = 0
    /\ buf' = <<>>
    /\ codepoints' = 0
    /\ logs' = FALSE
    /\ logsPos' = 0
    /\ exit' = 0
    /\ reason' = "none"
    /\ calls' = <<>>
    /\ result' = NoResult
    /\ attempt' = attempt + 1
    /\ reqPc' = "run_code"

\* What stream.next() may yield: Some(Ok(output)) without or with an "error"
\* field, Some(Err(e)), or None.
BuildItems == {"progress record", "error record", "transport error", "end"}

\* A build that logs a record with an "error" field like any other record.
BuildOutcome_IgnoresErrorField(item) ==
    CASE item = "end" -> "Ok"
      [] item \in {"progress record", "error record"} -> "continue"
      [] OTHER -> "Err"

\* The match on build_result inside the while let: both kinds of error bail,
\* a progress record is logged, the end of the stream leaves the loop.
BuildOutcome(item) ==
    CASE item = "end" -> "Ok"
      [] item = "progress record" -> "continue"
      [] OTHER -> "Err"

\* A build that tags the image without the namespace.
BuildTag_NoNamespace(s) == <<"", s.image_name>>

\* let image_name = format!("codie/{}", spec.image_name); ...tag(image_name)
BuildTag(s) == <<"codie/", s.image_name>>

\* One item of the build stream: a progress record, a record with an "error"
\* field, a transport error, or the end of the stream, after which the image
\* exists under the build's tag and run_code is called again.
BuildNext ==
    /\ reqPc = "build_stream"
    /\ \E item \in BuildItems :
        \/ /\ BuildOutcome(item) = "continue"
           /\ progress < MaxProgress
           /\ progress' = progress + 1
           /\ hist' = Append(hist, item)
           /\ UNCHANGED <<images, sent, reqPc, attempt>>
           /\ UNCHANGED runVars
        \/ /\ BuildOutcome(item) = "Err"
           /\ hist' = hist \o <<item, "build:Err">>
           /\ Send(Body("error", <<>>))
           /\ reqPc' = "done"
           /\ UNCHANGED <<images, progress, attempt>>
           /\ UNCHANGED runVars
        \/ /\ BuildOutcome(item) = "Ok"
           /\ images' = images \cup {BuildTag(spec)}
           /\ hist' = hist \o <<"build:Ok", "run_code">>
           /\ Retry
           /\ progress' = 0
           /\ UNCHANGED sent
    /\ UNCHANGED <<containers, prog, spec, other, msg, opts, lang, resolved, inventory, langs, rx>>

\* Somebody else at the engine deletes the request's image (docker rmi);
\* create answers 404 from then on.
ImageRemoved ==
    /\ Image \in images
    /\ images' = images \ {Image}
    /\ UNCHANGED <<containers, prog, spec, other, msg, opts, lang, resolved, inventory, langs, rx>>
    /\ UNCHANGED runVars
    /\ UNCHANGED reqVars

Next ==
    \/ ContainerEmit
    \/ ContainerExit
    \/ Create
    \/ CopyFileInto
    \/ Start
    \/ Extend
    \/ WaitInRace
    \/ Elapsed
    \/ StopContainer
    \/ WaitStopped
    \/ Remove
    \/ RunCodeReturned
    \/ BuildStart
    \/ BuildNext

Spec == Init /\ [][Next]_vars

\* ------------------------------------------------------------- scheduling
\* The steps of run_code itself (the timer apart).
RunCodeStep ==
    \/ Create
    \/ CopyFileInto
    \/ Start
    \/ Extend
    \/ WaitInRace
    \/ StopContainer
    \/ WaitStopped
    \/ Remove

\* The call run_code is suspended on has its answer due: wait answers once
\* the container has exited, logs.next() once a chunk is there or the stream
\* of a container that no longer runs has ended; every other call answers
\* of itself.  (A transport error may come at any time; none has to.)
AnswerDue ==
    CASE pc \in {"wait", "wait_stopped"} -> containers[cid].status = "exited"
      [] pc \in {"extend", "extend_rest"} ->
             \/ ~logs
             \/ logsPos < containers[cid].emitted
             \/ containers[cid].status # "running"
      [] OTHER -> TRUE

\* One invocation of run_code under a scheduler that resumes the task when
\* the answer it awaits is due and that fires the timeout's timer while
\* drain-and-wait is pending.  The program is not obliged to write or exit.
InitLive == Init /\ Len(prog.chunks) <= MaxLiveChunks

SpecLive ==
    /\ InitLive
    /\ [][ContainerEmit \/ ContainerExit \/ RunCodeStep \/ Elapsed]_vars
    /\ WF_vars(AnswerDue /\ RunCodeStep)
    /\ WF_vars(Elapsed)

\* ------------------------------------------------------ concurrent requests
\* Programs for two requests in flight together: one that writes nothing and
\* exits with a status, and one that writes more than the budget.
ConcPrograms ==
    {p \in Programs : \/ p.chunks = <<>> /\ p.exits /\ p.status # 0
                      \/ p.chunks = <<BigChunk, BigChunk>> /\ p.exits /\ p.status = 0}

\* One request at an engine whose images may be deleted at any time.
InitPrune == Init /\ prog \in ConcPrograms

SpecPrune == InitPrune /\ [][Next \/ ImageRemoved]_vars

\* The active request, as a record.
Saved ==
    [prog |-> prog, spec |-> spec, msg |-> msg, opts |-> opts, lang |-> lang,
     resolved |-> resolved, pc |-> pc, cid |-> cid, buf |-> buf,
     codepoints |-> codepoints, logs |-> logs, logsPos |-> logsPos, exit |-> exit,
     reason |-> reason, calls |-> calls, result |-> result, reqPc |-> reqPc,
     attempt |-> attempt, progress |-> progress, hist |-> hist, sent |-> sent]

\* Handler::message runs on a task of its own for every message: the
\* executor goes from one request's task to the other's at an await.
Switch ==
    /\ prog' = other.prog
    /\ spec' = other.spec
    /\ msg' = other.msg
    /\ opts' = other.opts
    /\ lang' = other.lang
    /\ resolved' = other.resolved
    /\ pc' = other.pc
    /\ cid' = other.cid
    /\ buf' = other.buf
    /\ codepoints' = other.codepoints
    /\ logs' = other.logs
    /\ logsPos' = other.logsPos
    /\ exit' = other.exit
    /\ reason' = other.reason
    /\ calls' = other.calls
    /\ result' = other.result
    /\ reqPc' = other.reqPc
    /\ attempt' = other.attempt
    /\ progress' = other.progress
    /\ hist' = other.hist
    /\ sent' = other.sent
    /\ other' = Saved
    /\ UNCHANGED <<images, containers, inventory, langs, rx>>

InitConc ==
    /\ inventory = "catalog"
    /\ rx = NewReceiver
    /\ langs = "built"
    /\ spec \in RunSpecs
    /\ msg = NewRequest(<<>>, spec).msg
    /\ opts = NewRequest(<<>>, spec).opts
    /\ lang = NewRequest(<<>>, spec).lang
    /\ resolved = NewRequest(<<>>, spec).resolved
    /\ \E p \in ConcPrograms, s \in RunSpecs : other = NewRequest(p, s)
    /\ images \in {{}, {ImageOf(s) : s \in RunSpecs}}
    /\ containers = <<>>
    /\ prog \in ConcPrograms
    /\ pc = "create"
    /\ cid = 0
    /\ buf = <<>>
    /\ codepoints = 0
    /\ logs = FALSE
    /\ logsPos = 0
    /\ exit = 0
    /\ reason = "none"
    /\ calls = <<>>
    /\ result = NoResult
    /\ reqPc = "run_code"
    /\ attempt = 1
    /\ progress = 0
    /\ hist = <<"run_code">>
    /\ sent = <<>>

NextConc == Next \/ Switch

SpecConc == InitConc /\ [][NextConc]_vars

\* ------------------------------------------------- the option text of a request
\* No program runs while a request is parsed and resolved.
NothingRun ==
    /\ images = {}
    /\ containers = <<>>
    /\ prog = [chunks |-> <<>>, exits |-> TRUE, status |-> 0]
    /\ other = NoRequest
    /\ pc = "create"
    /\ cid = 0
    /\ buf = <<>>
    /\ codepoints = 0
    /\ logs = FALSE
    /\ logsPos = 0
    /\ exit = 0
    /\ reason = "none"
    /\ calls = <<>>
    /\ result = NoResult
    /\ attempt = 1
    /\ progress = 0
    /\ hist = <<>>
    /\ sent = <<>>

\* Nothing returned yet.
Unset == [kind |-> "none"]

InitParse ==
    /\ NothingRun
    /\ inventory = "catalog"
    /\ rx = NewReceiver
    /\ langs = "built"
    /\ msg = RunMessage(<<>>, <<"p", "y">>)
    /\ opts = Unset
    /\ lang = "unset"
    /\ resolved = Unset
    /\ spec = PythonSpec
    /\ reqPc = "parse_message"

NextParse == ReadOpts \/ ParseMessage \/ ParseOptions

SpecParse == InitParse /\ [][NextParse]_vars

\* ------------------------------------------- the language of a request
Inventories == {"catalog", "catalog, clash", "clash, catalog"}

\* to_ascii_uppercase of one character, to write a code in capitals.
ToUpper(c) ==
    IF \E n \in 1..Len(LowerCase) : LowerCase[n] = c
    THEN UpperCase[CHOOSE n \in 1..Len(LowerCase) : LowerCase[n] = c]
    ELSE c

Capitals(code) == [n \in 1..Len(code) |-> ToUpper(code[n])]
Capitalised(code) == [n \in 1..Len(code) |-> IF n = 1 THEN ToUpper(code[n]) ELSE code[n]]

\* The codes of every variant that may be registered.
KnownCodes ==
    LET pairs == CodePairs(InventoryOf("catalog, clash"))
    IN  {pairs[n][1] : n \in 1..Len(pairs)}

\* The language tags of requests: every code as written, in capitals and
\* capitalised, a code cut short, a code with a letter more, and no tag.
LookupCodes ==
    KnownCodes
    \cup {Capitals(c) : c \in KnownCodes}
    \cup {Capitalised(c) : c \in KnownCodes}
    \cup {SubSeq(c, 1, Len(c) - 1) : c \in KnownCodes}
    \cup {Append(c, "x") : c \in KnownCodes}

\* The values some variant names for a key.
Named(key) ==
    UNION {Catalog[n].keys[k].allowed :
               <<n, k>> \in {p \in (1..Len(Catalog)) \X (1..2) :
                                /\ p[2] <= Len(Catalog[p[1]].keys)
                                /\ Catalog[p[1]].keys[p[2]].key = key}}

\* A key that is not in the map.
Absent == ""

\* The option maps of requests: each of the keys version and bundle absent,
\* with a value some variant names, or with a value none names, and a key
\* foo that no variant declares, absent or present.
OptionChoices ==
    [version |-> Named("version") \cup {"bogus", Absent},
     bundle |-> Named("bundle") \cup {"bogus", Absent},
     foo |-> {"bar", Absent}]

MapOf(choice) == [k \in {x \in DOMAIN choice : choice[x] # Absent} |-> choice[k]]

OptionMaps ==
    {MapOf([version |-> v, bundle |-> b, foo |-> f]) :
        v \in OptionChoices.version, b \in OptionChoices.bundle, f \in OptionChoices.foo}

InitLang ==
    /\ NothingRun
    /\ inventory \in Inventories
    /\ rx = NewReceiver
    /\ langs = "unbuilt"
    /\ \E c \in LookupCodes : msg = RunMessage(<<>>, c)
    /\ \E m \in OptionMaps : opts = OptionsOk(m)
    /\ lang = "unset"
    /\ resolved = Unset
    /\ spec = PythonSpec
    /\ reqPc = "get_lang"

NextLang == Main \/ GetLang \/ ResolveRunSpec

SpecLang == InitLang /\ [][NextLang]_vars

\* ---------------------------------------------------------- Handler::message
\* tokio::join! polls try_run_raw and the reply loop on one task: a panic in
\* either unwinds both.
TaskAlive == pc # "panicked" /\ rx.pc \notin {"no message", "panicked"}

\* let body = rx.recv().await.expect("at least one message"), msg.reply(..)
\* .expect(..), message_ids.insert(msg.id, reply.id).unwrap(): the first
\* body becomes the reply and the reply's id is recorded, or the task panics
\* on a failed reply or a failed insert.
RecvFirst ==
    /\ TaskAlive
    /\ rx.pc = "first"
    /\ Channel # <<>>
    /\ \E resp \in {"ok", "reply err", "insert err"} :
        rx' = CASE resp = "ok" ->
                       [pc |-> "loop", received |-> rx.received + 1,
                        reply |-> Head(Channel), inserted |-> rx.inserted + 1]
                [] resp = "reply err" ->
                       [rx EXCEPT !.pc = "panicked", !.received = @ + 1]
                [] resp = "insert err" ->
                       [rx EXCEPT !.pc = "panicked", !.received = @ + 1,
                                  !.reply = Head(Channel)]
    /\ UNCHANGED <<images, containers, prog, spec, other, msg, opts, lang, resolved, inventory, langs>>
    /\ UNCHANGED runVars
    /\ UNCHANGED reqVars

\* while let Some(ref body) = rx.recv().await { reply.edit(..) }: the reply
\* is edited to the body; when that fails it is edited to the error, and the
\* task panics when that fails as well.
RecvNext ==
    /\ TaskAlive
    /\ rx.pc = "loop"
    /\ Channel # <<>>
    /\ \E resp \in {"ok", "err", "err err"} :
        rx' = CASE resp = "ok" ->
                       [rx EXCEPT !.received = @ + 1, !.reply = Head(Channel)]
                [] resp = "err" ->
                       [rx EXCEPT !.received = @ + 1, !.reply = Body("edit error", <<>>)]
                [] resp = "err err" ->
                       [rx EXCEPT !.received = @ + 1, !.pc = "panicked"]
    /\ UNCHANGED <<images, containers, prog, spec, other, msg, opts, lang, resolved, inventory, langs>>
    /\ UNCHANGED runVars
    /\ UNCHANGED reqVars

\* rx.recv() returns None: try_run_raw has returned and dropped the sender,
\* and no body is left.  The loop ends; the first receive panics.
RecvClosed ==
    /\ TaskAlive
    /\ rx.pc \in {"first", "loop"}
    /\ reqPc = "done"
    /\ Channel = <<>>
    /\ rx' = [rx EXCEPT !.pc = IF rx.pc = "first" THEN "no message" ELSE "ended"]
    /\ UNCHANGED <<images, containers, prog, spec, other, msg, opts, lang, resolved, inventory, langs>>
    /\ UNCHANGED runVars
    /\ UNCHANGED reqVars

\* The steps of try_run_raw, those of build and, while it is in a run_code
\* call, those of run_code (the timer apart).
TryRunRaw ==
    \/ ParseMessage
    \/ ParseOptions
    \/ GetLang
    \/ ResolveRunSpec
    \/ reqPc = "run_code" /\ RunCodeStep
    \/ RunCodeReturned
    \/ BuildStart
    \/ BuildNext

\* A message arrives: nothing parsed, sent or received yet.  The messages
\* of run requests: without a code block, with a block that has no language
\* tag, with an option text that does not parse, with a tag no language has,
\* with a key the language does not declare, and two that run.  The program
\* a message carries is one of the shorter ones.
InitHandler ==
    /\ inventory = "catalog"
    /\ langs = "built"
    /\ rx = NewReceiver
    /\ msg \in { NoRunMessage,
                  RunMessage(<<>>, <<>>),
                  RunMessage(<<"\"">>, <<"p", "y">>),
                  RunMessage(<<>>, <<"x">>),
                  RunMessage(<<"k", "=", "1">>, <<"p", "y">>),
                  RunMessage(<<>>, <<"p", "y">>),
                  RunMessage(<<>>, <<"s", "h">>) }
    /\ opts = Unset
    /\ lang = "unset"
    /\ resolved = Unset
    /\ spec = PythonSpec
    /\ other = NoRequest
    /\ images \in {{}, {Image}}
    /\ containers = <<>>
    /\ prog \in {p \in Programs : Len(p.chunks) < MaxLiveChunks}
    /\ pc = "create"
    /\ cid = 0
    /\ buf = <<>>
    /\ codepoints = 0
    /\ logs = FALSE
    /\ logsPos = 0
    /\ exit = 0
    /\ reason = "none"
    /\ calls = <<>>
    /\ result = NoResult
    /\ reqPc = "parse_message"
    /\ attempt = 1
    /\ progress = 0
    /\ hist = <<>>
    /\ sent = <<>>

NextHandler ==
    \/ ContainerEmit
    \/ ContainerExit
    \/ TaskAlive /\ TryRunRaw
    \/ TaskAlive /\ reqPc = "run_code" /\ Elapsed
    \/ RecvFirst
    \/ RecvNext
    \/ RecvClosed

\* One run request handled by Handler::message, under a scheduler that
\* resumes either half of the join when what it awaits is there and that
\* fires the timer of run_code's race.
SpecHandler ==
    /\ InitHandler
    /\ [][NextHandler]_vars
    /\ WF_vars(TaskAlive /\ AnswerDue /\ TryRunRaw)
    /\ WF_vars(TaskAlive /\ reqPc = "run_code" /\ Elapsed)
    /\ WF_vars(RecvFirst \/ RecvNext \/ RecvClosed)

\* ---------------------------------------------------------------- properties
\* The positions of the invocation's calls of one engine operation.
CallsOf(op) == {i \in 1..Len(calls) : calls[i].op = op}

\* The invocation has handed a value to its caller.
HasReturned == pc \in {"returned", "idle"}

\* The answers that are not failures.
Succeeded(resp) == resp \in {"ok", "304", "chunk", "end"}

\* The bytes of the first n chunks the program writes, in the order written,
\* whichever stream each went to.
RECURSIVE Written(_)
Written(n) == IF n = 0 THEN <<>> ELSE Written(n - 1) \o prog.chunks[n].bytes

EndsWithMarker(s) == Len(s) >= Len(Marker) /\ SubSeq(s, Len(s) - Len(Marker) + 1, Len(s)) = Marker

\* C1: every run_code invocation that created a container has issued exactly
\* one remove call for it by the time it returns, on every path.
C1_RemovedOnEveryReturn ==
    (HasReturned /\ cid # 0) => Cardinality(CallsOf("remove")) = 1

\* C2: when create is answered 404 (no image for spec.image_name), run_code
\* returns UnrecognizedContainer and not a transport error, no container
\* exists, and create is the only engine call the invocation made.
C2_UnrecognizedImage ==
    (calls # <<>> /\ calls[1] = Call("create", "404")) =>
        /\ HasReturned
        /\ result.kind = "UnrecognizedContainer"
        /\ calls = <<Call("create", "404")>>
        /\ cid = 0
        /\ containers = <<>>

C2_Witness ==
    /\ pc = "returned"
    /\ calls = <<Call("create", "404")>>
    /\ result.kind = "UnrecognizedContainer"

C4_TruncatedWithinBudget ==
    /\ codepoints > MAX_OUTPUT_CODEPOINTS =>
           /\ ~logs
           /\ buf = Written(logsPos - 1) \o Marker
    /\ codepoints <= MAX_OUTPUT_CODEPOINTS =>
           /\ buf = Written(logsPos)
           /\ ~EndsWithMarker(buf)
    /\ CharCount(buf) <= MAX_OUTPUT_CODEPOINTS + CharCount(Marker)
    /\ result.kind = "Ok" =>
           /\ result.tty = buf
           /\ CharCount(result.tty) <= MAX_OUTPUT_CODEPOINTS + CharCount(Marker)
           /\ codepoints > MAX_OUTPUT_CODEPOINTS <=> EndsWithMarker(result.tty)

C4_Witness ==
    /\ result.kind = "Ok"
    /\ codepoints > MAX_OUTPUT_CODEPOINTS
    /\ CharCount(result.tty) = MAX_OUTPUT_CODEPOINTS + CharCount(Marker)

\* C5: an invocation all of whose engine calls succeeded (stop answered 304
\* included) ends by returning Ok(Output), whether the program finished, was
\* killed at the timeout or was killed for its output.
C5_NoFailedCallMeansOk ==
    (/\ pc \in {"returned", "idle", "panicked"}
     /\ \A i \in 1..Len(calls) : Succeeded(calls[i].resp))
        => result.kind = "Ok"

\* C6: a stop answered "already stopped" (304) is a success, run_code goes
\* on to wait for the exit and to the teardown; a stop that fails otherwise
\* ends the invocation by a panic, and nothing is returned.
C6_StopAnswers ==
    \A st \in CallsOf("stop") :
        IF calls[st].resp \in {"ok", "304"}
        THEN /\ st = Len(calls) => pc = "wait_stopped"
             /\ st < Len(calls) => calls[st + 1].op = "wait"
             /\ (HasReturned /\ \A i \in st..Len(calls) : Succeeded(calls[i].resp)) =>
                    calls[Len(calls)].op = "remove"
        ELSE /\ st = Len(calls)
             /\ pc = "panicked"
             /\ result = NoResult

C6_Witness ==
    /\ \E st \in CallsOf("stop") : calls[st].resp = "304"
    /\ result.kind = "Ok"

\* C7: a failure of create (other than 404), copy-file, start, a log-chunk
\* read, either wait, or remove ends the invocation by returning an error
\* value; none of them panics the task.
C7_ErrorsAreReturned ==
    \A i \in 1..Len(calls) :
        (/\ ~Succeeded(calls[i].resp)
         /\ calls[i].op # "stop"
         /\ calls[i] # Call("create", "404"))
            => (HasReturned /\ result.kind = "Error")

\* C8: when remove is answered "no such container" (404), run_code still
\* returns the Output it captured.
C8_RemoveToleratesGone ==
    (calls # <<>> /\ calls[Len(calls)] = Call("remove", "404")) =>
        result.kind = "Ok"

\* C9: build is called only right after a run_code of the request returned
\* UnrecognizedContainer; a successful build is followed by exactly one more
\* run_code; any other run_code error is followed by nothing.
C9_BuildThenRetry ==
    /\ \A i \in 1..Len(hist) :
        /\ hist[i] = "build" =>
               (i > 2 /\ hist[i - 1] = "UnrecognizedContainer" /\ hist[i - 2] = "run_code")
        /\ hist[i] = "build:Ok" =>
               /\ i < Len(hist) /\ hist[i + 1] = "run_code"
               /\ Cardinality({j \in i..Len(hist) : hist[j] = "run_code"}) = 1
        /\ hist[i] = "run_code" =>
               (i = 1 \/ hist[i - 1] = "build:Ok")
        /\ hist[i] = "Error" => (i = Len(hist) /\ reqPc = "done")
    /\ Cardinality({i \in 1..Len(hist) : hist[i] = "build"}) <= 1

C9_Witness ==
    hist = <<"run_code", "UnrecognizedContainer", "build", "build:Ok", "run_code", "Ok">>

\* C10: no step of a run_code invocation changes the set of images; the set
\* changes only in a step of build.
C10_OnlyBuildChangesImages ==
    [][images' # images => (reqPc = "build_stream" /\ pc = "idle")]_vars

C10_Witness ==
    /\ Image \in images
    /\ attempt = 2
    /\ result.kind = "Ok"

\* C11: run_code stops the container only when the timer elapsed or the
\* output budget was exceeded; when drain and wait both complete in time and
\* within budget no stop call is made and the returned status is the
\* program's own exit status.
C11_StopOnlyOnTimeoutOrOverflow ==
    /\ (pc = "stop" \/ CallsOf("stop") # {}) => reason \in {"timeout", "overflow"}
    /\ reason = "overflow" => codepoints > MAX_OUTPUT_CODEPOINTS
    /\ reason = "finished" =>
           /\ CallsOf("stop") = {}
           /\ codepoints <= MAX_OUTPUT_CODEPOINTS
           /\ prog.exits
           /\ exit = prog.status
           /\ result.kind = "Ok" => result.status = prog.status

C11_Witness ==
    /\ reason = "finished"
    /\ result.kind = "Ok"
    /\ result.status = 123
    /\ CallsOf("stop") = {}

\* C12: the capture keeps the order of the merged stream: when nothing was
\* truncated the returned tty is the bytes of all stdout and stderr chunks the
\* container wrote, concatenated in arrival order, none reordered, duplicated
\* or dropped and the two streams not separated.
C12_MergedStreamInOrder ==
    /\ logsPos <= Len(prog.chunks)
    /\ (result.kind = "Ok" /\ codepoints <= MAX_OUTPUT_CODEPOINTS) =>
           /\ logsPos = containers[cid].emitted
           /\ Cardinality(CallsOf("logs.next")) = logsPos + 1
           /\ result.tty = Written(containers[cid].emitted)
    /\ (result.kind = "Ok" /\ reason = "finished") =>
           result.tty = Written(Len(prog.chunks))

C12_Witness ==
    /\ result.kind = "Ok"
    /\ reason = "finished"
    /\ Len(prog.chunks) = 3
    /\ prog.chunks[1].kind = "StdErr"
    /\ prog.chunks[2].kind = "StdOut"
    /\ prog.chunks[3].kind = "StdErr"
    /\ prog.chunks[1].bytes # prog.chunks[2].bytes

\* The chunk reads made before (after) the stop call.
ReadsBeforeStop ==
    {i \in CallsOf("logs.next") : calls[i].resp = "chunk" /\ \E j \in CallsOf("stop") : i < j}

ReadsAfterStop ==
    {i \in CallsOf("logs.next") : calls[i].resp = "chunk" /\ \E j \in CallsOf("stop") : j < i}

CallsOnStarted ==
    CallsOf("logs.next") \cup CallsOf("stop") \cup CallsOf("wait") \cup CallsOf("remove")

\* C14: the engine calls of one run_code invocation come in the order
\* create, copy of the source to spec.code_path, start, log reads, optional
\* stop, wait, remove: the file is written before start, no log is read and
\* no stop is issued before start, and remove comes only after a wait has
\* reported the container exited.
C14_LifecycleOrder ==
    /\ calls # <<>> => (calls[1].op = "create" /\ CallsOf("create") = {1})
    /\ \A i \in CallsOf("copy_file_into") : i = 2 /\ calls[1].resp = "ok"
    /\ \A i \in CallsOf("start") : i = 3 /\ calls[2] = Call("copy_file_into", "ok")
    /\ \A i \in CallsOnStarted : i > 3 /\ calls[3] = Call("start", "ok")
    /\ \A i \in CallsOf("stop") :
           /\ \A j \in CallsOf("wait") : i < j
           /\ \A j \in CallsOf("remove") : i < j
    /\ \A i \in CallsOf("remove") :
           /\ \E j \in CallsOf("wait") : j < i /\ calls[j].resp = "ok"
           /\ \A j \in CallsOnStarted : j <= i
           /\ containers[cid].status \in {"exited", "removed"}
    /\ (cid # 0 /\ containers[cid].status # "created") =>
           containers[cid].file = [path |-> spec.code_path, code |-> prog]

C14_Witness ==
    /\ result.kind = "Ok"
    /\ CallsOf("stop") # {}
    /\ \E i \in CallsOf("logs.next") : \E j \in CallsOf("stop") : i < j
    /\ containers[cid].file.path = "run.py"

\* The containers the two requests hold are different ones, and each is the
\* one its own invocation asked for.
OwnContainers ==
    /\ (cid # 0 /\ other.cid # 0) => cid # other.cid
    /\ cid # 0 =>
           /\ containers[cid].opts.image = ImageOf(spec)
           /\ containers[cid].file \in {NoFile, [path |-> spec.code_path, code |-> prog]}
    /\ other.cid # 0 =>
           /\ containers[other.cid].opts.image = ImageOf(other.spec)
           /\ containers[other.cid].file \in
                  {NoFile, [path |-> other.spec.code_path, code |-> other.prog]}

\* A step in which the active request makes an engine call leaves every
\* container but its own as it was.
CallsTouchOwnContainerOnly ==
    (other' = other /\ calls' # calls) =>
        /\ \A c \in DOMAIN containers : c # cid' => containers'[c] = containers[c]
        /\ cid # 0 => cid' \in {cid, 0}
        /\ Len(containers') > Len(containers) =>
               (cid = 0 /\ cid' = Len(containers') /\ Len(containers') = Len(containers) + 1)

\* C15: run_code invocations in flight together are independent: each
\* creates a container of its own and every call it makes goes to that
\* container; a stop or remove after a timeout or an overflow in one never
\* reaches the container of the other, in any interleaving.
C15_InvocationsIndependent == []OwnContainers /\ [][CallsTouchOwnContainerOnly]_vars

C15_Witness ==
    /\ cid # 0
    /\ other.cid # 0
    /\ reason \in {"timeout", "overflow"}
    /\ \E i \in CallsOf("stop") : calls[i].resp = "ok"
    /\ \E i \in CallsOf("remove") : calls[i].resp = "ok"
    /\ containers[other.cid].status = "running"

\* C16: an image is built once and reused: once a build of an image has
\* completed, no request, one in flight together with the builder included,
\* starts another build of that image.
C16_NoRebuildOnceBuilt ==
    [][(other' = other /\ reqPc = "build" /\ reqPc' = "build_stream") =>
           Image \notin images]_vars

\* C17: every container run_code creates has one fixed profile whatever the
\* RunSpec and the source: user 65534:65534, no capabilities, not privileged,
\* no network, working directory /tmp, SIGKILL as stop signal with no grace
\* period, and the CPU and memory limits of the runner's configuration.
C17_FixedProfile ==
    \A c \in 1..Len(containers) :
        LET o == containers[c].opts
        IN  /\ o.user = "65534:65534"
            /\ o.capabilities = {}
            /\ o.privileged = FALSE
            /\ o.network_mode = "none"
            /\ o.working_dir = "/tmp"
            /\ o.stop_signal = "SIGKILL"
            /\ o.stop_timeout = 0
            /\ o.cpus = RunnerCpus
            /\ o.memory = RunnerMemory

C17_Witness ==
    /\ Len(containers) >= 2
    /\ containers[1].opts.image # containers[2].opts.image
    /\ containers[1].file # NoFile
    /\ containers[2].file # NoFile
    /\ containers[1].file.path # containers[2].file.path
    /\ containers[1].file.code # containers[2].file.code

\* The number of codepoints of a rendered message.
RECURSIVE RenderedLen(_)
RenderedLen(m) ==
    IF m = <<>> THEN 0
    ELSE Len(Head(m).lit) + CharCount(Head(m).text) + RenderedLen(Tail(m))

\* The output bodies the request has sent.
OutputBodies == {i \in 1..Len(sent) : sent[i].kind = "output"}

\* C18: the message the encoder renders for an Output of run_code (status
\* line, fence, escaped text with the truncation marker) is never longer, in
\* codepoints, than the platform's message limit, whatever the status.
C18_RenderedWithinLimit ==
    /\ \A i \in OutputBodies : RenderedLen(sent[i].text) <= MESSAGE_CODE_LIMIT
    /\ result.kind = "Ok" =>
           /\ RenderedLen(Display(result)) <= MESSAGE_CODE_LIMIT
           /\ RenderedLen(Display(result)) - Len(ToString(result.status)) + U64Digits
                  <= MESSAGE_CODE_LIMIT
    /\ Len("**EXIT STATUS:** ") + U64Digits + CharCount(Newline)
           + CharCount(Fence \o Newline) + MAX_OUTPUT_CODEPOINTS + CharCount(Marker)
           + CharCount(Fence) <= MESSAGE_CODE_LIMIT

C18_Witness ==
    \E i \in OutputBodies :
        /\ result.kind = "Ok"
        /\ result.status # 0
        /\ EndsWithMarker(result.tty)
        /\ CharCount(result.tty) = MAX_OUTPUT_CODEPOINTS + CharCount(Marker)
        /\ sent[i].text = Display(result)
        /\ RenderedLen(sent[i].text) > MAX_OUTPUT_CODEPOINTS + CharCount(Marker)
        /\ \E k \in 1..Len(sent[i].text[5].text) : sent[i].text[5].text[k].b = "U+02CB"

\* C20: the encoder puts the bold exit-status line, with the status, in
\* front of the fenced block exactly when the status is not 0; for status 0
\* the rendering begins with the fence.
C20_StatusLineIffNonzero ==
    \A i \in OutputBodies :
        LET m == sent[i].text
        IN  /\ result.status # 0 =>
                /\ Len(m) = 6
                /\ m[1].lit = "**EXIT STATUS:** "
                /\ m[2].lit = ToString(result.status)
                /\ m[3].text = Newline
                /\ m[4].text = Fence \o Newline
            /\ result.status = 0 =>
                /\ Len(m) = 3
                /\ m[1].lit = ""
                /\ m[1].text = Fence \o Newline

C20_Witness ==
    \E i \in OutputBodies :
        /\ result.status = 123
        /\ sent[i].text[2].lit = "123"
        /\ result.tty # <<>>

\* What the first n chunks the program writes add up to: for each chunk its
\* characters when it decodes on its own and its bytes when it does not.
RECURSIVE Counted(_)
Counted(n) ==
    IF n = 0 THEN 0
    ELSE Counted(n - 1) + (IF ValidUtf8(prog.chunks[n].bytes)
                           THEN CharCount(prog.chunks[n].bytes)
                           ELSE ByteLen(prog.chunks[n].bytes))

\* The chunks accepted into the buffer.
Accepted == IF codepoints > MAX_OUTPUT_CODEPOINTS THEN logsPos - 1 ELSE logsPos

\* C19: the running count grows, chunk by chunk, by the chunk's character
\* count when the chunk alone is valid text and by its byte length when it is
\* not; so it is never smaller than the number of codepoints of the accepted
\* bytes, and a chunk is accepted only when the count that includes it is
\* within the budget.
C19_BudgetAccounting ==
    /\ codepoints = Counted(logsPos)
    /\ Accepted >= 0
    /\ Counted(Accepted) <= MAX_OUTPUT_CODEPOINTS
    /\ buf \in {Written(Accepted), Written(Accepted) \o Marker}
    /\ ValidUtf8(Written(Accepted)) => CharCount(Written(Accepted)) <= Counted(Accepted)
    /\ ByteLen(Written(Accepted)) >= Counted(Accepted)

C19_Witness ==
    /\ result.kind = "Ok"
    /\ codepoints <= MAX_OUTPUT_CODEPOINTS
    /\ \E n \in 1..logsPos : ~ValidUtf8(prog.chunks[n].bytes)
    /\ CharCount(result.tty) < codepoints

\* The pieces of a rendered message that hold a fence delimiter.
FencePieces(m) ==
    {k \in 1..Len(m) : \E j \in 1..Len(m[k].text) :
                           m[k].text[j].b = "tick" /\ m[k].text[j].n >= 3}

\* C21: the encoder leaves the fenced block out when the captured text is
\* empty and the status is 0: the rendering of Output{status: 0, tty: ""}
\* has no fence delimiter.
C21_EmptyOutputHasNoFence ==
    \A i \in OutputBodies :
        (result.status = 0 /\ result.tty = <<>>) => FencePieces(sent[i].text) = {}

\* A text with every run of equal neighbouring characters written as one run.
RECURSIVE Canon(_)
Canon(s) ==
    IF Len(s) < 2 THEN s
    ELSE IF s[1].b = s[2].b
         THEN Canon(<<[b |-> s[1].b, n |-> s[1].n + s[2].n]>> \o Tail(Tail(s)))
         ELSE <<Head(s)>> \o Canon(Tail(s))

\* The text with every U+02CB turned back into a backtick.
Unescaped(s) == [k \in 1..Len(s) |-> IF s[k].b = "U+02CB" THEN [b |-> "tick", n |-> s[k].n] ELSE s[k]]

\* The text the encoder put between the fences of a rendered output.
Fenced(m) == m[Len(m) - 1].text

\* C22: the text the encoder puts between the fences never holds three
\* backticks in a row, runs of four or more included: every fence delimiter
\* of the captured text is replaced by three U+02CB and every other character
\* is as it was.
C22_NoFenceInsideBlock ==
    \A i \in OutputBodies :
        LET e == Fenced(sent[i].text)
        IN  /\ \A k \in 1..Len(Canon(e)) : Canon(e)[k].b = "tick" => Canon(e)[k].n < 3
            /\ \A k \in 1..Len(Canon(e)) : Canon(e)[k].b = "U+02CB" => Canon(e)[k].n % 3 = 0
            /\ Canon(Unescaped(e)) = Canon(result.tty)
            /\ CharCount(e) = CharCount(result.tty)

C22_Witness ==
    \E i \in OutputBodies :
        LET e == Fenced(sent[i].text)
        IN  /\ \E k \in 1..Len(result.tty) - 1 :
                   /\ result.tty[k].b = "tick"
                   /\ result.tty[k + 1].b = "tick"
                   /\ result.tty[k].n + result.tty[k + 1].n > 4
            /\ \E k \in 1..Len(e) - 1 : e[k].b = "U+02CB" /\ e[k + 1].b = "tick"
            /\ \E k \in 1..Len(e) : e[k].b \notin {"tick", "U+02CB"}

\* ------------------------------------------------------------ option texts
\* A reading of an option text that does not use the grammar: a quote opens or
\* closes a quoted stretch, a backslash inside one takes the next character
\* with it, and white space outside one ends a word.
RECURSIVE ScanText(_, _, _, _)
ScanText(i, inq, word, acc) ==
    IF i = <<>>
    THEN [words |-> IF word = <<>> THEN acc ELSE Append(acc, word),
          open |-> inq, badEscape |-> FALSE]
    ELSE LET c == Head(i)
         IN  IF inq /\ c = "\\"
             THEN IF Len(i) >= 2 /\ i[2] \in {"\\", "\""}
                  THEN ScanText(Tail(Tail(i)), TRUE, word \o <<c, i[2]>>, acc)
                  ELSE [ScanText(Tail(i), TRUE, Append(word, c), acc)
                            EXCEPT !.badEscape = TRUE]
             ELSE IF c = "\""
             THEN ScanText(Tail(i), ~inq, Append(word, c), acc)
             ELSE IF ~inq /\ c \in Multispace
             THEN ScanText(Tail(i), FALSE, <<>>,
                           IF word = <<>> THEN acc ELSE Append(acc, word))
             ELSE ScanText(Tail(i), inq, Append(word, c), acc)

Scanned(i) == ScanText(i, FALSE, <<>>, <<>>)

\* The key of a word: what stands before its first equals sign.
HasKey(word) == \E n \in 1..Len(word) : word[n] = "="
KeyOf(word) == SubSeq(word, 1, PrefixLenNot(word, {"="}))

SameKeyTwice(i) ==
    LET ws == Scanned(i).words
    IN  \E a, b \in 1..Len(ws) :
            /\ a < b
            /\ HasKey(ws[a])
            /\ HasKey(ws[b])
            /\ KeyOf(ws[a]) = KeyOf(ws[b])

UnterminatedQuote(i) == Scanned(i).open
InvalidEscape(i) == Scanned(i).badEscape
\* White space before the first pair (a text of white space alone has no pair).
LeadingSpace(i) ==
    /\ i # <<>>
    /\ Head(i) \in Multispace
    /\ \E n \in 1..Len(i) : i[n] \notin Multispace
Unconsumed(i) == config(i).st = "Ok" /\ config(i).rest # <<>>

\* parse_options has returned for the request.
Parsed == opts # Unset

RECURSIVE Reverse(_)
Reverse(seq) == IF seq = <<>> THEN <<>> ELSE Append(Reverse(Tail(seq)), Head(seq))

\* A value written between quotes, backslash and quote escaped.
RECURSIVE Escaped(_)
Escaped(val) ==
    IF val = <<>> THEN <<>>
    ELSE (IF Head(val) \in {"\\", "\""} THEN <<"\\", Head(val)>> ELSE <<Head(val)>>)
         \o Escaped(Tail(val))

QuotedValue(val) == <<"\"">> \o Escaped(val) \o <<"\"">>
BareValue(val) == val

\* The pairs of a map written as k=v separated by one space.
RECURSIVE JoinBare(_)
JoinBare(pairs) ==
    IF pairs = <<>> THEN <<>>
    ELSE Head(pairs)[1] \o <<"=">> \o BareValue(Head(pairs)[2])
         \o (IF Len(pairs) > 1 THEN <<" ">> ELSE <<>>) \o JoinBare(Tail(pairs))

RECURSIVE JoinQuoted(_)
JoinQuoted(pairs) ==
    IF pairs = <<>> THEN <<>>
    ELSE Head(pairs)[1] \o <<"=">> \o QuotedValue(Head(pairs)[2])
         \o (IF Len(pairs) > 1 THEN <<" ">> ELSE <<>>) \o JoinQuoted(Tail(pairs))

\* The pairs the accepted text was made of, in the order given and reversed.
AcceptedPairs == config(msg.opts).out
Orders == {AcceptedPairs, Reverse(AcceptedPairs)}

Accepted24 == Parsed /\ opts.kind = "Ok"

\* C24 (as stated): every accepted text, written again as k=v pairs with the
\* values as they are, parses to the same map.
C24_RoundTripBare ==
    Accepted24 => \A ps \in Orders : parse_options(JoinBare(ps)) = opts

\* C24: every accepted text, written again as k="v" pairs with backslash and
\* quote escaped in v, parses to the same map, whatever the order of the pairs.
C24_RoundTripQuoted ==
    Accepted24 => \A ps \in Orders : parse_options(JoinQuoted(ps)) = opts

\* An accepted text whose value holds a space, and one with two pairs.
C24_Witness ==
    /\ Accepted24
    /\ \E n \in 1..Len(AcceptedPairs) :
           \E k \in 1..Len(AcceptedPairs[n][2]) : AcceptedPairs[n][2][k] = " "

\* -------------------------------------------------------------- resolution
\* run_spec has returned for the request.
Resolved == resolved # Unset

\* The keys the variant of the request declares, and the value each gets:
\* the one in the map or, without one, the default.
KeysOf(v) == {v.keys[n] : n \in 1..Len(v.keys)}
ValueFor(d, m) == IF d.key \in DOMAIN m THEN m[d.key] ELSE d.default
Undeclared(v, m) == {k \in DOMAIN m : \A d \in KeysOf(v) : d.key # k}
Unsupported(v, m) == {d \in KeysOf(v) : ValueFor(d, m) \notin d.allowed}

\* Every variant of the catalog has supported defaults and resolves with them.
DefaultsSupported ==
    \A n \in 1..Len(Catalog) :
        /\ \A d \in KeysOf(Catalog[n]) : d.default \in d.allowed
        /\ run_spec(Catalog[n], EmptyMap).kind = "Ok"

\* Every variant of the catalog answers foo=bar with UnknownKeys of foo.
FooIsUnknown ==
    \A n \in 1..Len(Catalog) :
        run_spec(Catalog[n], [k \in {"foo"} |-> "bar"]) = UnknownKeys({"foo"})

\* C25: for every registered variant the defaults are supported values and
\* resolution with an empty options map succeeds.
C25_DefaultsResolve ==
    /\ DefaultsSupported
    /\ (Resolved /\ opts.map = EmptyMap)
           => /\ resolved.kind = "Ok"
              /\ reqPc = "run_code"
              /\ spec = resolved.spec

\* Python resolved without options.
C25_Witness ==
    /\ Resolved
    /\ opts.map = EmptyMap
    /\ lang = "Python"
    /\ resolved = ResolveOk([image_name |-> "python3.9-scipy", code_path |-> "run.py"])

\* C26: a map with a key the variant does not declare resolves to UnknownKeys
\* with exactly the undeclared keys of the map, whatever the other values
\* are; foo=bar gives UnknownKeys of foo for every variant.
C26_UnknownKeysExact ==
    /\ FooIsUnknown
    /\ (Resolved /\ Undeclared(Variant(lang), opts.map) # {})
           => /\ resolved = UnknownKeys(Undeclared(Variant(lang), opts.map))
              /\ \A d \in KeysOf(Variant(lang)) : d.key \notin resolved.keys
              /\ reqPc = "done"

\* Python with an unsupported version and an undeclared key: the key is
\* reported, the version is not.
C26_Witness ==
    /\ Resolved
    /\ lang = "Python"
    /\ opts.map = [version |-> "bogus", foo |-> "bar"]
    /\ resolved = UnknownKeys({"foo"})

\* C27: with declared keys only, resolution succeeds exactly when every
\* value, given or default, is a supported one; else it is UnknownValue with
\* an unsupported value of the map, and there is no RunSpec.
C27_UnknownValueIffUnsupported ==
    (Resolved /\ Undeclared(Variant(lang), opts.map) = {})
        => LET bad == Unsupported(Variant(lang), opts.map)
           IN  /\ resolved.kind = "Ok" <=> bad = {}
               /\ bad # {} =>
                      /\ resolved.kind = "UnknownValue"
                      /\ \E d \in bad : resolved.value = ValueFor(d, opts.map)
                      /\ "spec" \notin DOMAIN resolved
                      /\ reqPc = "done"

\* Python with a supported version and an unsupported bundle.
C27_Witness ==
    /\ Resolved
    /\ lang = "Python"
    /\ opts.map = [version |-> "3.8", bundle |-> "bogus"]
    /\ resolved = UnknownValue("bogus")

\* Every successful resolution of a variant of the catalog with one of the
\* option maps: the variant, its bound values, the name of its image.
Resolutions ==
    {[variant |-> Catalog[p[1]].name,
      bound |-> Bound(Catalog[p[1]], p[2]),
      image_name |-> run_spec(Catalog[p[1]], p[2]).spec.image_name] :
        p \in {q \in (1..Len(Catalog)) \X OptionMaps :
                   run_spec(Catalog[q[1]], q[2]).kind = "Ok"}}

\* C28: a successful resolution shares its image_name with no resolution of
\* another variant or of other option values.
C28_ImageNameInjective ==
    (Resolved /\ resolved.kind = "Ok")
        => \A r \in Resolutions :
               r.image_name = resolved.spec.image_name
                   => /\ r.variant = lang
                      /\ r.bound = Bound(Variant(lang), opts.map)

\* Groovy 3.0 resolved, while Ruby has a 3.0 as well.
C28_Witness ==
    /\ Resolved
    /\ resolved.kind = "Ok"
    /\ lang = "Groovy"
    /\ Bound(Variant(lang), opts.map) = [version |-> "3.0"]
    /\ \E r \in Resolutions : r.variant = "Ruby" /\ r.bound = [version |-> "3.0"]

\* ------------------------------------------------------------------ lookup
\* Two codes that differ at most in the case of their ASCII letters.
SameLetter(a, b) ==
    \/ a = b
    \/ \E n \in 1..Len(UpperCase) : {a, b} = {UpperCase[n], LowerCase[n]}
EqIgnoreCase(c, d) == Len(c) = Len(d) /\ \A n \in 1..Len(c) : SameLetter(c[n], d[n])

\* Two registrations of the inventory with the same code but for case.
SharedCode(inv) ==
    LET pairs == CodePairs(inv)
    IN  \E a, b \in 1..Len(pairs) : a < b /\ EqIgnoreCase(pairs[a][1], pairs[b][1])

\* The inventories in which that happens.
Clashing == {id \in Inventories : SharedCode(InventoryOf(id))}

\* The variants of an inventory that have a tag among their aliases but for
\* case.
Owners ==
    [id \in Inventories |->
        [c \in LookupCodes |->
            LET inv == InventoryOf(id)
            IN  {inv[n].name : n \in {i \in 1..Len(inv) :
                                          \E k \in 1..Len(inv[i].codes) :
                                              EqIgnoreCase(inv[i].codes[k], c)}}]]

LookedUp == lang # "unset"

\* C29: the table is built unless two variants share a code but for case,
\* and then startup aborts; a lookup in the built table gives the variant
\* that has the code among its aliases but for case, and none otherwise.
C29_LookupIgnoresCase ==
    /\ langs # "unbuilt" => (langs = "panicked" <=> inventory \in Clashing)
    /\ LookedUp =>
           LET owners == Owners[inventory][msg.lang]
           IN  /\ langs = "built"
               /\ lang # NoLang => owners = {lang}
               /\ lang = NoLang => owners = {}

\* PY found Python.
C29_Witness ==
    /\ LookedUp
    /\ msg.lang = <<"P", "Y">>
    /\ lang = "Python"

\* ----------------------------------------------------------------- cleanup
\* C30: when run_code returns Ok(Output), its container has been removed by
\* the one remove call of the invocation, that call was its last engine
\* call, and it came after the one wait that returned, whose exit status is
\* the status of the Output.
C30_RemovedLastAfterWait ==
    result.kind = "Ok" =>
        /\ HasReturned
        /\ cid # 0
        /\ containers[cid].status = "removed"
        /\ CallsOf("remove") = {Len(calls)}
        /\ calls[Len(calls)] = Call("remove", "ok")
        /\ \E j \in CallsOf("wait") :
               /\ CallsOf("wait") = {j}
               /\ calls[j].resp = "ok"
               /\ j < Len(calls)
        /\ result.status = containers[cid].exit
        /\ result.status = exit

\* A program that was stopped and one that failed by itself both end this
\* way; here the stopped one, reporting the status of a killed container.
C30_Witness ==
    /\ result.kind = "Ok"
    /\ CallsOf("stop") # {}
    /\ result.status = KilledStatus
    /\ containers[cid].status = "removed"

\* ------------------------------------------------------------------- retry
RunCodeCalls == {i \in 1..Len(hist) : hist[i] = "run_code"}
BuildCalls == {i \in 1..Len(hist) : hist[i] = "build"}
RunCodeResults == {"Ok", "UnrecognizedContainer", "Error"}

\* C31: a request calls build at most once and run_code at most twice; a
\* failed build ends the request with no further run_code, and whatever the
\* second run_code returns, UnrecognizedContainer included, ends it with no
\* further build or run.
C31_RetryIsBounded ==
    /\ Cardinality(BuildCalls) <= 1
    /\ Cardinality(RunCodeCalls) <= 2
    /\ \A i \in 1..Len(hist) :
           /\ hist[i] = "build:Err" => (i = Len(hist) /\ reqPc = "done" /\ pc = "idle")
           /\ (hist[i] \in RunCodeResults /\ \E j, k \in RunCodeCalls : j < k /\ k < i)
                  => (i = Len(hist) /\ reqPc = "done" /\ pc = "idle")

\* The image was deleted after the build: the second run_code found none
\* either, and the request ended.
C31_Witness ==
    /\ hist = <<"run_code", "UnrecognizedContainer", "build", "build:Ok",
                "run_code", "UnrecognizedContainer">>
    /\ reqPc = "done"

\* ----------------------------------------------------------------- the tag
BuildsDone == {i \in 1..Len(hist) : hist[i] = "build:Ok"}

\* C32: the image build(spec) tags is the one run_code(spec, _) creates its
\* container from; with no image ever deleted, a run_code that starts after
\* build returned Ok is not answered 404 and does not return
\* UnrecognizedContainer.
C32_BuildAndRunAgreeOnTag ==
    BuildsDone # {} =>
        /\ ContainerOptions(spec).image \in images
        /\ \A i \in BuildsDone : \A j \in i..Len(hist) : hist[j] # "UnrecognizedContainer"
        /\ \A c \in CallsOf("create") : calls[c].resp # "404"
        /\ result.kind # "UnrecognizedContainer"

\* The run_code after the build created its container from the built image.
C32_Witness ==
    /\ BuildsDone # {}
    /\ cid # 0
    /\ containers[cid].opts.image = BuildTag(spec)
    /\ result.kind = "Ok"

\* ------------------------------------------------------- the build stream
ErrorItems == {"error record", "transport error"}
ErrorItemsRead == {i \in 1..Len(hist) : hist[i] \in ErrorItems}
BuildErrs == {i \in 1..Len(hist) : hist[i] = "build:Err"}

\* What holds of the stream whatever made build fail: the first error item
\* is the last item read and makes build return an error at once; while
\* build is still reading it has seen no error item; and Ok comes after
\* progress records only.
StreamIsReadToFirstError ==
    /\ \A i \in ErrorItemsRead : i + 1 = Len(hist) /\ hist[i + 1] = "build:Err"
    /\ reqPc = "build_stream" => (ErrorItemsRead = {} /\ BuildErrs = {} /\ BuildsDone = {})
    /\ \A i \in BuildsDone :
           /\ ErrorItemsRead = {}
           /\ \A b \in BuildCalls : \A j \in (b + 1)..(i - 1) : hist[j] = "progress record"

\* C33 (as stated): build returns an error if and only if some item of the
\* progress stream is a transport error or a record with an error field.
C33_BuildFailsIffErrorItem ==
    /\ StreamIsReadToFirstError
    /\ \A i \in BuildErrs : ErrorItemsRead # {}

\* C33: build returns an error if and only if it could not write the
\* Dockerfile into its temporary directory, before any item is read, or some
\* item of the progress stream is a transport error or a record with an
\* error field; it reads no item after the first such one and returns Ok only
\* when the stream has ended without one.
C33_BuildFailsOnSetupOrErrorItem ==
    /\ StreamIsReadToFirstError
    /\ \A i \in BuildErrs :
           /\ i > 1
           /\ \/ i - 1 \in ErrorItemsRead
              \/ i - 1 \in BuildCalls

\* A progress record, then a record with an error field: build failed.
C33_Witness ==
    /\ Len(hist) >= 4
    /\ SubSeq(hist, Len(hist) - 3, Len(hist)) =
           <<"build", "progress record", "error record", "build:Err">>
    /\ reqPc = "done"

\* ------------------------------------------------------ order of the errors
\* The first declared key, in the order of bind_opts!, with an unsupported
\* value.
FirstUnsupported(v, m) ==
    LET bad == {n \in 1..Len(v.keys) : ValueFor(v.keys[n], m) \notin v.keys[n].allowed}
    IN  v.keys[CHOOSE n \in bad : \A k \in bad : n <= k]

\* C34: with both an unsupported value for a declared key and an undeclared
\* key in the options, resolution reports the unsupported value; with several
\* unsupported values it reports the one of the first key validated.
C34_ValueReportedBeforeKeys ==
    (Resolved /\ Unsupported(Variant(lang), opts.map) # {})
        => resolved = UnknownValue(ValueFor(FirstUnsupported(Variant(lang), opts.map), opts.map))

\* The number of polls of the log stream made so far.
Polls == Cardinality(CallsOf("logs.next"))

\* The capture and the drain's position are left as they are by a step.
CaptureKept ==
    /\ buf' = buf
    /\ codepoints' = codepoints
    /\ logsPos' = logsPos
    /\ logs' = logs
    /\ Polls' = Polls

\* C35: once the running count has passed the budget the capture is frozen:
\* it is the chunks accepted before the overflowing one followed by the
\* marker, once and last; the stream is gone; and no later step of the
\* invocation (the extend after the forced stop included) polls the stream
\* or changes the capture.
C35_FrozenAfterOverflow ==
    /\ [](codepoints > MAX_OUTPUT_CODEPOINTS =>
              /\ ~logs
              /\ buf = Written(logsPos - 1) \o Marker
              /\ result.kind = "Ok" => result.tty = buf)
    /\ [][codepoints > MAX_OUTPUT_CODEPOINTS => CaptureKept]_vars

\* An invocation that overflowed before all chunks were read, went through
\* the forced stop and the extend after it, and returned.
C35_Witness ==
    /\ codepoints > MAX_OUTPUT_CODEPOINTS
    /\ reason = "overflow"
    /\ result.kind = "Ok"
    /\ logsPos < Len(prog.chunks)
    /\ \E j \in CallsOf("stop"), k \in CallsOf("remove") : j < k

\* The invocation has reached OutputBuilder::build: remove answered ok.
ReachedBuild == calls # <<>> /\ calls[Len(calls)] = Call("remove", "ok")

\* C36: converting the captured bytes into tty never fails: an invocation
\* that reaches OutputBuilder::build returns an Output holding the capture,
\* whatever bytes the program wrote and wherever the capture was truncated.
C36_BuildNeverFails ==
    (ReachedBuild /\ pc # "remove") => (pc # "panicked" /\ result.kind = "Ok")

\* run_code is suspended on a call on a container that still runs.
AwaitsRunning ==
    /\ pc \in {"extend", "wait", "wait_stopped", "extend_rest"}
    /\ containers[cid].status = "running"

\* C37: every invocation of run_code eventually returns or aborts, whatever
\* the program does (never exiting included); and wherever it is suspended
\* on a container that still runs, the timer of the race can fire.
C37_RunCodeTerminates ==
    /\ <>(pc \in {"returned", "panicked"})
    /\ [](AwaitsRunning => ENABLED Elapsed)

\* An invocation of a program that never exits has returned its Output.
C37_Witness ==
    /\ ~prog.exits
    /\ pc = "returned"
    /\ result.kind = "Ok"
    /\ reason = "timeout"

\* ------------------------------------------------------------- the channel
\* What the request's run_code calls returned, in order.
Returns == SelectSeq(hist, LAMBDA x : x \in RunCodeResults)

FirstRunFoundNoImage == Returns # <<>> /\ Returns[1] = "UnrecognizedContainer"

Notices == {i \in 1..Len(sent) : sent[i].kind = "Building container"}
Finals == {i \in 1..Len(sent) : sent[i].kind \in {"error", "output"}}

\* C38: try_run_raw has sent one or two bodies when it returns, on every
\* path: exactly one final body (an error or the output), which is the last,
\* preceded by the "Building container" notice if and only if the request's
\* first run_code returned UnrecognizedContainer; nothing is sent after the
\* final body; and the first receive of the reply loop never finds the
\* channel closed and empty.
C38_OneOrTwoBodies ==
    /\ Notices \cup Finals = 1..Len(sent)
    /\ Cardinality(Notices) <= 1
    /\ Notices # {} <=> FirstRunFoundNoImage
    /\ \A i \in Notices : i = 1
    /\ Finals = IF reqPc = "done" THEN {Len(sent)} ELSE {}
    /\ reqPc = "done" => Len(sent) \in {1, 2}
    /\ Len(Channel) <= Capacity
    /\ rx.pc # "no message"

\* The request built its image and ran: the notice and then the output were
\* sent, and the reply loop took both and ended.
C38_Witness ==
    /\ reqPc = "done"
    /\ Len(sent) = 2
    /\ sent[1].kind = "Building container"
    /\ sent[2].kind = "output"
    /\ rx.pc = "ended"
    /\ rx.received = 2

\* Both halves of the join have run to their end.
Completed == reqPc = "done" /\ rx.pc = "ended"

\* The reply loop took the bodies in the order they were sent, and the
\* mapping is inserted with the first reply and never again.
InOrderAndOnce ==
    /\ rx.received <= Len(sent)
    /\ rx.inserted <= 1
    /\ rx.pc \in {"loop", "ended"} => rx.inserted = 1
    /\ rx.pc = "first" => (rx.inserted = 0 /\ rx.received = 0)

\* What holds of the pair in the code: it completes unless the task panics
\* (in run_code, or on a failed reply, insert or second edit); it never waits
\* on a full channel; and on completion the reply shows the last body sent or
\* the error of the edit that failed to show it.
PairCompletesOrAborts ==
    /\ <>(Completed \/ ~TaskAlive)
    /\ [](InOrderAndOnce)
    /\ [](Completed => /\ Channel = <<>>
                       /\ rx.reply \in {sent[Len(sent)], Body("edit error", <<>>)})

\* A step of either half of the join.
PairStep ==
    \/ TaskAlive /\ TryRunRaw
    \/ TaskAlive /\ reqPc = "run_code" /\ Elapsed
    \/ RecvFirst
    \/ RecvNext
    \/ RecvClosed

\* Every call made on the engine so far was answered with success.
EngineAnswered == \A i \in 1..Len(calls) : Succeeded(calls[i].resp)

\* C39: the pair always completes: as long as the calls on the engine and on
\* the reply succeed the two halves are never left stopped short of their
\* ends (neither completed nor able to take a step); once both have
\* ended the reply shows the last body sent and the mapping for the message
\* has been inserted exactly once, the bodies having been taken in the order
\* they were sent.
C39_PairAlwaysCompletes ==
    /\ InOrderAndOnce
    /\ (rx.pc # "panicked" /\ EngineAnswered) => (Completed \/ ENABLED PairStep)
    /\ (Completed /\ rx.reply.kind # "edit error") =>
           /\ rx.reply = sent[Len(sent)]
           /\ rx.inserted = 1
====
